---- MODULE Spec2Model ----
(***************************************************************************)
(* A model of ini::ini_manager (include/ini_manager/ini_manager.hpp): the  *)
(* in-memory INI store, its line-oriented parser and serializer and its    *)
(* typed accessors.  Strings are sequences of one-character strings, so    *)
(* trimming, line splitting and number parsing are computed character by   *)
(* character as the C++ code does.                                         *)
(***************************************************************************)
EXTENDS Integers, Sequences, FiniteSets, TLC

VARIABLES
    m_data,     \* ini_manager::m_data: section name -> (key name -> value)
    op,         \* the member function called last ("init" before any call)
    arg,        \* its arguments: [section, key, value]
    pre,        \* m_data as it was when that call began
    ret,        \* what the call returned
    istream,    \* the std::istream handed to the call, as the call left it
    ostream,    \* the std::ostream handed to the call, as the call left it
    m_file_path,    \* ini_manager::m_file_path
    files,          \* the file system: path -> [exists, text]
    path_known,     \* history: the path of the latest from_file that gave a
                    \* manager, load_file or write_file(path) that wrote
    path_loaded,    \* history: the path of the latest from_file that gave a
                    \* manager or load_file, forgotten at a load from a stream
    heap,           \* the data_map objects std::make_shared has made: address -> mapping
    managers,       \* the ini_manager objects: name -> [m_data (an address), m_file_path]
    accessor,       \* the section_accessor formed last: [m_data (an address), m_section_name]
    self,           \* the object the last call was made on
    since_copy      \* history: the load_stream and load_file calls made since an
                    \* ini_manager was last copied

\* the objects SpecAlias follows; the other specifications follow one
\* ini_manager through m_data and m_file_path and leave these as they are
alias_vars == <<heap, managers, accessor, self, since_copy>>

vars ==
    <<m_data, op, arg, pre, ret, istream, ostream, m_file_path, files,
      path_known, path_loaded, heap, managers, accessor, self, since_copy>>

(***************************************************************************)
(* Bounds of the model.                                                    *)
(***************************************************************************)
\* the most lines an input text has
MaxLines == 3
\* the most set_value calls that populate a store before it is written out
MaxSets == 2

(***************************************************************************)
(* Characters and strings.                                                 *)
(***************************************************************************)
SP == " "
TAB == "\t"
CR == "\r"
LF == "\n"

\* the empty std::string / std::string_view
EmptyStr == <<>>

\* std::string_view::npos, as an index that no character has
npos == 0

\* the character set " \t\r\n" of ini::trim
TrimSet == {SP, TAB, CR, LF}

find_first_not_of(str, set) ==
    IF \E i \in 1..Len(str) : str[i] \notin set
    THEN CHOOSE i \in 1..Len(str) :
            /\ str[i] \notin set
            /\ \A j \in 1..(i - 1) : str[j] \in set
    ELSE npos

find_last_not_of(str, set) ==
    IF \E i \in 1..Len(str) : str[i] \notin set
    THEN CHOOSE i \in 1..Len(str) :
            /\ str[i] \notin set
            /\ \A j \in (i + 1)..Len(str) : str[j] \in set
    ELSE npos

\* std::string_view::find(ch): the first index holding ch, or npos
find(str, ch) ==
    IF \E i \in 1..Len(str) : str[i] = ch
    THEN CHOOSE i \in 1..Len(str) :
            /\ str[i] = ch
            /\ \A j \in 1..(i - 1) : str[j] # ch
    ELSE npos

\* a mutant of trim: the trailing whitespace is kept
trim_keeps_tail(str) ==
    LET first == find_first_not_of(str, TrimSet)
    IN  IF first = npos THEN EmptyStr ELSE SubSeq(str, first, Len(str))

\* ini::trim
trim(str) ==
    LET first == find_first_not_of(str, TrimSet)
        last == find_last_not_of(str, TrimSet)
    IN  IF first = npos THEN EmptyStr ELSE SubSeq(str, first, last)

starts_with(str, ch) == Len(str) > 0 /\ str[1] = ch

ends_with(str, ch) == Len(str) > 0 /\ str[Len(str)] = ch

(***************************************************************************)
(* data_map: std::map<std::string, std::map<std::string, std::string>>.    *)
(***************************************************************************)
\* an empty std::map
EmptyMap == <<>>

\* std::map::operator[] followed by an assignment of v
MapPut(m, k, v) == [x \in (DOMAIN m) \cup {k} |-> IF x = k THEN v ELSE m[x]]

\* std::map::erase(key)
MapErase(m, k) == [x \in (DOMAIN m) \ {k} |-> m[x]]

\* (*m_data)[section]: the section's entries, default-constructed when absent
Entries(m, section) == IF section \in DOMAIN m THEN m[section] ELSE EmptyMap

\* a mutant of Assign: the section's other keys are dropped
Assign_clears_section(m, section, key, value) ==
    MapPut(m, section, MapPut(EmptyMap, key, value))

\* (*m_data)[section][key] = value
Assign(m, section, key, value) ==
    MapPut(m, section, MapPut(Entries(m, section), key, value))

\* a mutant of set_section_: an existing section is reset to empty
set_section_resets(m, section) == MapPut(m, section, EmptyMap)

\* ini_manager::set_section, as a function of the mapping
set_section_(m, section) ==
    IF section \notin DOMAIN m THEN MapPut(m, section, EmptyMap) ELSE m

\* const_section_accessor::operator[]: the optional<string> looked up
Lookup(m, section, key) ==
    IF section \in DOMAIN m /\ key \in DOMAIN m[section]
    THEN [has |-> TRUE, str |-> m[section][key]]
    ELSE [has |-> FALSE, str |-> EmptyStr]

(***************************************************************************)
(* std::istream and std::getline.                                          *)
(***************************************************************************)
\* A stream over the characters buf, pos of them consumed.  fault = n > 0
\* says that the n-th read from now meets a device error before it has
\* extracted a character, fault = -n that it meets one after it has extracted
\* the first character of its line; 0 that no read meets one.
IStream(buf, fault) ==
    [buf |-> buf, pos |-> 0, eofbit |-> FALSE, failbit |-> FALSE,
     badbit |-> FALSE, fault |-> fault]

\* std::ios::fail(), bad(), eof()
fail(s) == s.failbit \/ s.badbit
bad(s) == s.badbit
eof(s) == s.eofbit

\* std::getline(istream, line): the stream afterwards and the line read.
\* A device error sets badbit; failbit is set when no character was extracted.
getline(s) ==
    IF s.eofbit \/ s.failbit \/ s.badbit
    THEN [stream |-> [s EXCEPT !.failbit = TRUE], line |-> EmptyStr]
    ELSE LET rest == SubSeq(s.buf, s.pos + 1, Len(s.buf))
             nl == find(rest, LF)
             next == IF s.fault > 1 THEN s.fault - 1
                     ELSE IF s.fault < -1 THEN s.fault + 1 ELSE 0
         IN  IF s.fault = 1 \/ (s.fault = -1 /\ Len(rest) = 0)
             THEN [stream |-> [s EXCEPT !.badbit = TRUE, !.failbit = TRUE,
                                        !.fault = 0],
                   line |-> EmptyStr]
             ELSE IF s.fault = -1
             THEN [stream |-> [s EXCEPT !.pos = s.pos + 1, !.badbit = TRUE,
                                        !.fault = 0],
                   line |-> SubSeq(rest, 1, 1)]
             ELSE IF nl # npos
             THEN [stream |-> [s EXCEPT !.pos = s.pos + nl, !.fault = next],
                   line |-> SubSeq(rest, 1, nl - 1)]
             ELSE [stream |-> [s EXCEPT !.pos = Len(s.buf), !.eofbit = TRUE,
                                        !.failbit = (Len(rest) = 0),
                                        !.fault = next],
                   line |-> rest]

(***************************************************************************)
(* ini_manager::parse.                                                     *)
(***************************************************************************)
\* std::optional<std::string> current_section: <<>> is nullopt, <<name>> a value
nullopt == <<>>
has_value(o) == Len(o) > 0

\* a mutant of parse_header: a header line resets the section it names
parse_header_resets(m, line_view) ==
    LET name == IF Len(line_view) < 3
                THEN EmptyStr
                ELSE trim(SubSeq(line_view, 2, Len(line_view) - 1))
    IN  [data |-> MapPut(m, name, EmptyMap), current_section |-> <<name>>]

\* parse, the section header branch: the line is "[" ... "]"
parse_header(m, line_view) ==
    LET name == IF Len(line_view) < 3
                THEN EmptyStr
                ELSE trim(SubSeq(line_view, 2, Len(line_view) - 1))
    IN  [data |-> set_section_(m, name), current_section |-> <<name>>]

\* a mutant of parse_pair: a pair before any header goes to the section ""
parse_pair_without_header(m, current_section, line_view) ==
    LET delimiter_pos == find(line_view, "=")
        section == IF has_value(current_section)
                   THEN current_section[1] ELSE EmptyStr
        key == trim(SubSeq(line_view, 1, delimiter_pos - 1))
        value == trim(SubSeq(line_view, delimiter_pos + 1, Len(line_view)))
    IN  IF delimiter_pos # npos /\ key # EmptyStr
        THEN Assign(m, section, key, value)
        ELSE m

\* a mutant of parse_pair: a pair with an empty key is recorded too
parse_pair_empty_key(m, current_section, line_view) ==
    LET delimiter_pos == find(line_view, "=")
        key == trim(SubSeq(line_view, 1, delimiter_pos - 1))
        value == trim(SubSeq(line_view, delimiter_pos + 1, Len(line_view)))
    IN  IF delimiter_pos # npos /\ has_value(current_section)
        THEN Assign(m, current_section[1], key, value)
        ELSE m

\* a mutant of parse_pair: the value is stored as written, not trimmed
parse_pair_raw_value(m, current_section, line_view) ==
    LET delimiter_pos == find(line_view, "=")
        key == trim(SubSeq(line_view, 1, delimiter_pos - 1))
        value == SubSeq(line_view, delimiter_pos + 1, Len(line_view))
    IN  IF delimiter_pos # npos /\ has_value(current_section) /\ key # EmptyStr
        THEN Assign(m, current_section[1], key, value)
        ELSE m

\* a mutant of parse_pair: the line is split at its last '='
parse_pair_splits_at_last(m, current_section, line_view) ==
    LET places == { i \in 1..Len(line_view) : line_view[i] = "=" }
        delimiter_pos == IF places = {} THEN npos
                         ELSE CHOOSE i \in places : \A j \in places : j <= i
        key == trim(SubSeq(line_view, 1, delimiter_pos - 1))
        value == trim(SubSeq(line_view, delimiter_pos + 1, Len(line_view)))
    IN  IF delimiter_pos # npos /\ has_value(current_section) /\ key # EmptyStr
        THEN Assign(m, current_section[1], key, value)
        ELSE m

\* parse, the key-value branch: the mapping after a line that is neither
\* empty, a comment nor a header
parse_pair(m, current_section, line_view) ==
    LET delimiter_pos == find(line_view, "=")
        key == trim(SubSeq(line_view, 1, delimiter_pos - 1))
        value == trim(SubSeq(line_view, delimiter_pos + 1, Len(line_view)))
    IN  IF delimiter_pos # npos /\ has_value(current_section) /\ key # EmptyStr
        THEN Assign(m, current_section[1], key, value)
        ELSE m

\* a mutant of is_skipped: only '#' starts a comment
is_skipped_hash_only(line_view) ==
    line_view = EmptyStr \/ starts_with(line_view, "#")

\* parse, the first test: an empty line or a comment
is_skipped(line_view) ==
    \/ line_view = EmptyStr
    \/ starts_with(line_view, ";")
    \/ starts_with(line_view, "#")

\* a mutant of is_header: a line that holds a '=' is no header
is_header_without_equals(line_view) ==
    /\ starts_with(line_view, "[")
    /\ ends_with(line_view, "]")
    /\ find(line_view, "=") = npos

\* parse, the second test: a section header
is_header(line_view) == starts_with(line_view, "[") /\ ends_with(line_view, "]")

\* the while loop of parse: [data, stream, failed], failed when the loop
\* returned the error itself
RECURSIVE parse_loop(_, _, _)
parse_loop(m, s, current_section) ==
    LET g == getline(s)
        line_view == trim(g.line)
    IN  IF fail(g.stream)
        THEN [data |-> m, stream |-> g.stream, failed |-> FALSE]
        ELSE IF is_skipped(line_view)
        THEN parse_loop(m, g.stream, current_section)
        ELSE IF is_header(line_view)
        THEN LET h == parse_header(m, line_view)
             IN  parse_loop(h.data, g.stream, h.current_section)
        ELSE LET m2 == parse_pair(m, current_section, line_view)
             IN  IF fail(g.stream) /\ ~eof(g.stream)
                 THEN [data |-> m2, stream |-> g.stream, failed |-> TRUE]
                 ELSE parse_loop(m2, g.stream, current_section)

\* a mutant of parse: the end of the stream is reported as an error
parse_eof_is_error(m, s) ==
    LET r == parse_loop(m, s, nullopt)
    IN  [data |-> r.data, stream |-> r.stream,
         ok |-> ~r.failed /\ ~fail(r.stream)]

\* a mutant of parse: a stream read to its end is left with eofbit alone
parse_clears_fail(m, s) ==
    LET r == parse_loop(m, s, nullopt)
        ok == ~r.failed /\ ~bad(r.stream)
    IN  [data |-> r.data,
         stream |-> IF ok THEN [r.stream EXCEPT !.failbit = FALSE] ELSE r.stream,
         ok |-> ok]

\* ini_manager::parse: the mapping and the stream afterwards, ok = has_value()
parse(m, s) ==
    LET r == parse_loop(m, s, nullopt)
    IN  [data |-> r.data, stream |-> r.stream,
         ok |-> ~r.failed /\ ~bad(r.stream)]

(***************************************************************************)
(* The order of std::map<std::string, ...>: by character code.             *)
(***************************************************************************)
\* the characters of the model in the order of their codes
Chars ==
    <<TAB, LF, CR, SP, "#", "+", "-",
      "0", "1", "2", "3", "4", "5", "6", "7", "8", "9", ";", "=",
      "A", "B", "C", "D", "E", "F", "G", "H", "I", "J", "K", "L", "M",
      "N", "O", "P", "Q", "R", "S", "T", "U", "V", "W", "X", "Y", "Z",
      "[", "]",
      "a", "b", "c", "d", "e", "f", "g", "h", "i", "j", "k", "l", "m",
      "n", "o", "p", "q", "r", "s", "t", "u", "v", "w", "x", "y", "z">>

Ord(c) == CHOOSE i \in 1..Len(Chars) : Chars[i] = c

\* std::string operator<
StrLess(a, b) ==
    \E i \in 1..(Len(a) + 1) :
        /\ i <= Len(b)
        /\ \A j \in 1..(i - 1) : a[j] = b[j]
        /\ (i = Len(a) + 1 \/ Ord(a[i]) < Ord(b[i]))

\* the keys of a std::map in iteration order
RECURSIVE InOrder(_)
InOrder(S) ==
    IF S = {} THEN <<>>
    ELSE LET x == CHOOSE x \in S : \A y \in S \ {x} : StrLess(x, y)
         IN  <<x>> \o InOrder(S \ {x})

(***************************************************************************)
(* std::ostream and ini_manager::write.                                    *)
(***************************************************************************)
\* A stream that has written buf.  room is the number of characters the
\* device still takes, -1 when it takes any number.
OStream(room) == [buf |-> EmptyStr, failbit |-> FALSE, badbit |-> FALSE, room |-> room]

\* ostream << str
put(s, str) ==
    IF s.failbit \/ s.badbit
    THEN [s EXCEPT !.failbit = TRUE]
    ELSE IF s.room = -1
    THEN [s EXCEPT !.buf = s.buf \o str]
    ELSE IF Len(str) <= s.room
    THEN [s EXCEPT !.buf = s.buf \o str, !.room = s.room - Len(str)]
    ELSE [s EXCEPT !.buf = s.buf \o SubSeq(str, 1, s.room), !.room = 0,
                   !.badbit = TRUE]

\* a mutant of write_entry: the pair is written without the spaces
write_entry_no_spaces(s, key, value) ==
    put(put(put(put(s, key), <<"=">>), value), <<LF>>)

\* write, the inner loop's body: key << " = " << value << "\n"
write_entry(s, key, value) ==
    put(put(put(put(s, key), <<SP, "=", SP>>), value), <<LF>>)

RECURSIVE write_entries(_, _, _)
write_entries(s, entries, keys) ==
    IF keys = <<>> THEN s
    ELSE write_entries(write_entry(s, Head(keys), entries[Head(keys)]),
                       entries, Tail(keys))

\* a mutant of write_section: the header is written without its brackets
write_section_no_brackets(s, section, entries) ==
    put(write_entries(put(put(s, section), <<LF>>),
                      entries, InOrder(DOMAIN entries)),
        <<LF>>)

\* a mutant of write_section: a section without keys is not written
write_section_skips_empty(s, section, entries) ==
    IF entries = EmptyMap THEN s
    ELSE put(write_entries(put(put(put(s, <<"[">>), section), <<"]", LF>>),
                           entries, InOrder(DOMAIN entries)),
             <<LF>>)

\* write, the outer loop's body: "[section]\n", the entries, "\n"
write_section(s, section, entries) ==
    put(write_entries(put(put(put(s, <<"[">>), section), <<"]", LF>>),
                      entries, InOrder(DOMAIN entries)),
        <<LF>>)

RECURSIVE write_sections(_, _, _)
write_sections(s, m, sections) ==
    IF sections = <<>> THEN s
    ELSE write_sections(write_section(s, Head(sections), m[Head(sections)]),
                        m, Tail(sections))

\* ini_manager::write: the stream afterwards, ok = has_value()
write(m, s) ==
    LET r == write_sections(s, m, InOrder(DOMAIN m))
    IN  [stream |-> r, ok |-> ~(r.failbit \/ r.badbit)]

(***************************************************************************)
(* Typed values: std::format("{}", value) and get_value<T>.                *)
(***************************************************************************)
\* the value handed to set_value<T>: T is std::string, int or bool
StringValue(s) == [type |-> "string", str |-> s, int |-> 0, bool |-> FALSE]
IntValue(n) == [type |-> "int", str |-> EmptyStr, int |-> n, bool |-> FALSE]
BoolValue(b) == [type |-> "bool", str |-> EmptyStr, int |-> 0, bool |-> b]

\* the limits of int
INT_MAX == 2147483647
INT_MIN == -INT_MAX - 1

Digits == <<"0", "1", "2", "3", "4", "5", "6", "7", "8", "9">>
IsDigit(c) == \E d \in 1..Len(Digits) : Digits[d] = c
DigitValue(c) == (CHOOSE d \in 1..Len(Digits) : Digits[d] = c) - 1

\* the decimal digits of the absolute value of n, for n <= 0 (the absolute
\* value of INT_MIN is no int)
RECURSIVE DecimalOfNegative(_)
DecimalOfNegative(n) ==
    LET d == (10 - (n % 10)) % 10
        q == (n + d) \div 10
    IN  IF n > -10 THEN <<Digits[1 - n]>>
        ELSE DecimalOfNegative(q) \o <<Digits[d + 1]>>

\* a mutant of format: a negative int loses its sign
format_drops_sign(value) ==
    IF value.type = "string" THEN value.str
    ELSE IF value.type = "bool"
    THEN (IF value.bool THEN <<"t", "r", "u", "e">>
                        ELSE <<"f", "a", "l", "s", "e">>)
    ELSE DecimalOfNegative(IF value.int > 0 THEN -value.int ELSE value.int)

\* std::format("{}", value)
format(value) ==
    IF value.type = "string" THEN value.str
    ELSE IF value.type = "bool"
    THEN (IF value.bool THEN <<"t", "r", "u", "e">>
                        ELSE <<"f", "a", "l", "s", "e">>)
    ELSE IF value.int < 0 THEN <<"-">> \o DecimalOfNegative(value.int)
    ELSE DecimalOfNegative(-value.int)

\* std::isspace in the "C" locale, over the characters of the model
IsSpace == {SP, TAB, LF, CR}

\* the digits of an int being read: [value, overflow], accumulated below
\* zero so that INT_MIN is reached without overflow
RECURSIVE AccumulateDigits(_, _, _, _)
AccumulateDigits(str, i, acc, negative) ==
    IF i > Len(str) \/ ~IsDigit(str[i])
    THEN [value |-> acc, overflow |-> FALSE, stop |-> i]
    ELSE LET d == DigitValue(str[i])
             limit == IF negative THEN INT_MIN ELSE -INT_MAX
             \* acc * 10 - d >= limit, computed without leaving int
             fits == /\ acc >= (limit \div 10) + 1
                     /\ acc * 10 >= limit + d
         IN  IF fits
             THEN AccumulateDigits(str, i + 1, acc * 10 - d, negative)
             ELSE LET rest == AccumulateDigits(str, i + 1, 0, negative)
                  IN  [value |-> limit, overflow |-> TRUE, stop |-> rest.stop]

\* a mutant of extract_int: characters left after the number are accepted
extract_int_allows_leftover(str) ==
    LET first == find_first_not_of(str, IsSpace)
        signed == first # npos /\ str[first] \in {"+", "-"}
        negative == signed /\ str[first] = "-"
        start == IF signed THEN first + 1 ELSE first
        acc == AccumulateDigits(str, start, 0, negative)
        ok == first # npos /\ acc.stop > start /\ ~acc.overflow
    IN  [has |-> ok, int |-> IF ~ok THEN 0
                             ELSE IF negative THEN acc.value ELSE -acc.value]

\* a mutant of extract_int: a sign makes the extraction fail
extract_int_unsigned(str) ==
    LET first == find_first_not_of(str, IsSpace)
        acc == AccumulateDigits(str, first, 0, FALSE)
        ok == first # npos /\ acc.stop > first /\ ~acc.overflow
                /\ acc.stop > Len(str)
    IN  [has |-> ok, int |-> IF ok THEN -acc.value ELSE 0]

\* get_value<int>, the StreamExtractable branch:
\* std::istringstream iss(str); (iss >> value) && iss.eof()
extract_int(str) ==
    LET first == find_first_not_of(str, IsSpace)
        signed == first # npos /\ str[first] \in {"+", "-"}
        negative == signed /\ str[first] = "-"
        start == IF signed THEN first + 1 ELSE first
        acc == AccumulateDigits(str, start, 0, negative)
        extracted == first # npos /\ acc.stop > start /\ ~acc.overflow
        at_eof == acc.stop > Len(str)
        ok == extracted /\ at_eof
    IN  [has |-> ok, int |-> IF ~ok THEN 0
                             ELSE IF negative THEN acc.value ELSE -acc.value]

UpperCase ==
    <<"A", "B", "C", "D", "E", "F", "G", "H", "I", "J", "K", "L", "M",
      "N", "O", "P", "Q", "R", "S", "T", "U", "V", "W", "X", "Y", "Z">>
LowerCase ==
    <<"a", "b", "c", "d", "e", "f", "g", "h", "i", "j", "k", "l", "m",
      "n", "o", "p", "q", "r", "s", "t", "u", "v", "w", "x", "y", "z">>

\* ::tolower
tolower(c) ==
    IF \E i \in 1..Len(UpperCase) : UpperCase[i] = c
    THEN LowerCase[CHOOSE i \in 1..Len(UpperCase) : UpperCase[i] = c]
    ELSE c

\* a mutant of to_bool: the text is compared as stored, in its own case
to_bool_case_sensitive(str) ==
    LET lower_value == trim(str)
    IN  IF lower_value \in {<<"t", "r", "u", "e">>, <<"1">>}
        THEN [has |-> TRUE, bool |-> TRUE]
        ELSE IF lower_value \in {<<"f", "a", "l", "s", "e">>, <<"0">>}
        THEN [has |-> TRUE, bool |-> FALSE]
        ELSE [has |-> FALSE, bool |-> FALSE]

\* get_value<bool>, the bool branch
to_bool(str) ==
    LET lower_value == trim([i \in 1..Len(str) |-> tolower(str[i])])
    IN  IF lower_value = <<"t", "r", "u", "e">> \/ lower_value = <<"1">>
        THEN [has |-> TRUE, bool |-> TRUE]
        ELSE IF lower_value = <<"f", "a", "l", "s", "e">> \/ lower_value = <<"0">>
        THEN [has |-> TRUE, bool |-> FALSE]
        ELSE [has |-> FALSE, bool |-> FALSE]

(***************************************************************************)
(* The member functions of ini_manager, as functions of the mapping.       *)
(***************************************************************************)
\* what a call returned: an optional<T> (has, and str, int or bool), a bool
\* (bool), a std::expected<void, std::error_code> (has, err), a
\* std::vector<std::string> (list) or nothing
NoRet ==
    [has |-> FALSE, str |-> EmptyStr, int |-> 0, bool |-> FALSE, err |-> "none",
     list |-> <<>>]
Expected(ok) == [NoRet EXCEPT !.has = ok, !.err = IF ok THEN "none" ELSE "EIO"]
\* std::unexpected(std::error_code(errno, std::system_category())) after a
\* file that did not open
OpenFailed == [NoRet EXCEPT !.err = "errno"]
\* std::unexpected(std::errc::operation_not_permitted, generic_category)
NotPermitted == [NoRet EXCEPT !.err = "operation_not_permitted"]

\* the arguments of a call; type is the T of set_value<T> and get_value<T>
NoArg ==
    [section |-> EmptyStr, key |-> EmptyStr, value |-> StringValue(EmptyStr),
     type |-> "none", file_path |-> EmptyStr]
Args(section, key, value, type) ==
    [NoArg EXCEPT !.section = section, !.key = key, !.value = value, !.type = type]

\* no stream is handed to the call
NoIStream == [buf |-> EmptyStr, pos |-> 0, eofbit |-> FALSE, failbit |-> FALSE, badbit |-> FALSE, fault |-> 0]
NoOStream == [buf |-> EmptyStr, failbit |-> FALSE, badbit |-> FALSE, room |-> -1]

\* a mutant of set_value_: the text is stored under the key in every section
set_value_all_sections(m, section, key, value) ==
    LET m2 == Assign(m, section, key, format(value))
    IN  [s \in DOMAIN m2 |-> MapPut(m2[s], key, format(value))]

\* ini_manager::set_value<T>
set_value_(m, section, key, value) == Assign(m, section, key, format(value))

\* a mutant of remove_value_: a section left without keys is removed too
remove_value_drops_empty_section(m, section, key) ==
    IF section \in DOMAIN m
    THEN [data |-> IF DOMAIN m[section] = {key} THEN MapErase(m, section)
                   ELSE MapPut(m, section, MapErase(m[section], key)),
          bool |-> key \in DOMAIN m[section]]
    ELSE [data |-> m, bool |-> FALSE]

\* ini_manager::remove_value: the mapping afterwards and the bool returned
remove_value_(m, section, key) ==
    IF section \in DOMAIN m
    THEN [data |-> MapPut(m, section, MapErase(m[section], key)),
          bool |-> key \in DOMAIN m[section]]
    ELSE [data |-> m, bool |-> FALSE]

\* a mutant of remove_section_: the section is emptied and stays
remove_section_keeps_empty(m, section) ==
    [data |-> IF section \in DOMAIN m THEN MapPut(m, section, EmptyMap) ELSE m,
     bool |-> section \in DOMAIN m]

\* ini_manager::remove_section: the mapping afterwards and the bool returned
remove_section_(m, section) ==
    [data |-> MapErase(m, section), bool |-> section \in DOMAIN m]

\* a mutant of get_sections_: the names come in descending order
get_sections_descending(m) ==
    LET seq == InOrder(DOMAIN m)
    IN  [i \in 1..Len(seq) |-> seq[Len(seq) + 1 - i]]

\* ini_manager::get_sections
get_sections_(m) == InOrder(DOMAIN m)

\* ini_manager::get_keys
get_keys_(m, section) ==
    IF section \in DOMAIN m THEN InOrder(DOMAIN m[section]) ELSE <<>>

\* ini_manager::get_value<T>
get_value_(m, section, key, type) ==
    LET value_str == Lookup(m, section, key)
    IN  IF ~value_str.has THEN NoRet
        ELSE IF type = "string" THEN [NoRet EXCEPT !.has = TRUE, !.str = value_str.str]
        ELSE IF type = "bool"
        THEN LET b == to_bool(value_str.str)
             IN  [NoRet EXCEPT !.has = b.has, !.bool = b.bool]
        ELSE LET n == extract_int(value_str.str)
             IN  [NoRet EXCEPT !.has = n.has, !.int = n.int]

\* the T a call returns, as the value of a call
Returned(value) ==
    [NoRet EXCEPT !.has = TRUE, !.str = value.str, !.int = value.int, !.bool = value.bool]

\* a mutant of get_value_or_default_: the default is returned whatever is stored
get_value_or_default_ignores_value(m, section, key, default_value) ==
    Returned(default_value)

\* ini_manager::get_value_or_default, both overloads:
\* get_value<T>(section, key).value_or(default_value)
get_value_or_default_(m, section, key, default_value) ==
    LET o == get_value_(m, section, key, default_value.type)
    IN  IF o.has THEN o ELSE Returned(default_value)

\* std::ifstream file(file_path); file.is_open()
CanRead(fs, file_path) == file_path \in DOMAIN fs /\ fs[file_path].exists

\* std::ofstream file(file_path); file.is_open(): the file is created when
\* its directory is there
CanWrite(fs, file_path) == file_path \in DOMAIN fs

\* ini_manager::load: the mapping afterwards and the std::expected returned
load(m, fs, file_path, fault) ==
    IF ~CanRead(fs, file_path)
    THEN [data |-> m, ret |-> OpenFailed]
    ELSE LET r == parse(m, IStream(fs[file_path].text, fault))
         IN  [data |-> r.data, ret |-> Expected(r.ok)]

\* ini_manager::write_file(file_path): the files afterwards and the
\* std::expected returned
write_file_(m, fs, file_path, room) ==
    IF ~CanWrite(fs, file_path)
    THEN [files |-> fs, ret |-> OpenFailed]
    ELSE LET r == write(m, OStream(room))
         IN  [files |-> [fs EXCEPT ![file_path] =
                                [exists |-> TRUE, text |-> r.stream.buf]],
              ret |-> IF r.ok THEN Expected(TRUE) ELSE OpenFailed]

\* ini_manager::write_file(): the files afterwards and the std::expected
\* returned
write_file_back_(m, fs, file_path, room) ==
    IF file_path = EmptyStr
    THEN [files |-> fs, ret |-> NotPermitted]
    ELSE write_file_(m, fs, file_path, room)

(***************************************************************************)
(* The calls.  Each is the whole member function; the sets it is given are *)
(* the arguments the caller may pass.                                      *)
(***************************************************************************)
\* a call that leaves m_file_path and the files alone
Call(name, a, data, r, is, os) ==
    /\ op' = name
    /\ arg' = a
    /\ pre' = m_data
    /\ m_data' = data
    /\ ret' = r
    /\ istream' = is
    /\ ostream' = os
    /\ UNCHANGED <<m_file_path, files, path_known, path_loaded>>
    /\ UNCHANGED alias_vars

\* a call that sets m_file_path or opens a file
FileCall(name, a, data, r, is, file_path, fs, known, loaded) ==
    /\ op' = name
    /\ arg' = a
    /\ pre' = m_data
    /\ m_data' = data
    /\ ret' = r
    /\ istream' = is
    /\ ostream' = NoOStream
    /\ m_file_path' = file_path
    /\ files' = fs
    /\ path_known' = known
    /\ path_loaded' = loaded
    /\ UNCHANGED alias_vars

set_value(S, K, V) ==
    \E section \in S, key \in K, value \in V :
        Call("set_value", Args(section, key, value, value.type),
             set_value_(m_data, section, key, value), NoRet, NoIStream, NoOStream)

set_section(S) ==
    \E section \in S :
        Call("set_section", [NoArg EXCEPT !.section = section],
             set_section_(m_data, section), NoRet, NoIStream, NoOStream)

remove_value(S, K) ==
    \E section \in S, key \in K :
        LET r == remove_value_(m_data, section, key)
        IN  Call("remove_value", [NoArg EXCEPT !.section = section, !.key = key],
                 r.data, [NoRet EXCEPT !.bool = r.bool], NoIStream, NoOStream)

remove_section(S) ==
    \E section \in S :
        LET r == remove_section_(m_data, section)
        IN  Call("remove_section", [NoArg EXCEPT !.section = section],
                 r.data, [NoRet EXCEPT !.bool = r.bool], NoIStream, NoOStream)

get_value(S, K, T) ==
    \E section \in S, key \in K, type \in T :
        Call("get_value", [NoArg EXCEPT !.section = section, !.key = key, !.type = type],
             m_data, get_value_(m_data, section, key, type), NoIStream, NoOStream)

get_value_or_default(S, K, D) ==
    \E section \in S, key \in K, default_value \in D :
        Call("get_value_or_default",
             Args(section, key, default_value, default_value.type), m_data,
             get_value_or_default_(m_data, section, key, default_value),
             NoIStream, NoOStream)

get_sections ==
    Call("get_sections", NoArg, m_data,
         [NoRet EXCEPT !.list = get_sections_(m_data)], NoIStream, NoOStream)

get_keys(S) ==
    \E section \in S :
        Call("get_keys", [NoArg EXCEPT !.section = section], m_data,
             [NoRet EXCEPT !.list = get_keys_(m_data, section)], NoIStream, NoOStream)

\* a mutant of index_read: the section and key are reached as the mutable
\* accessor reaches them
index_read_creates(S, K) ==
    \E section \in S, key \in K :
        LET o == Lookup(m_data, section, key)
        IN  Call("operator[] const", [NoArg EXCEPT !.section = section, !.key = key],
                 Assign(m_data, section, key, o.str),
                 [NoRet EXCEPT !.has = o.has, !.str = o.str], NoIStream, NoOStream)

\* manager[section][key] on a const manager
index_read(S, K) ==
    \E section \in S, key \in K :
        LET o == Lookup(m_data, section, key)
        IN  Call("operator[] const", [NoArg EXCEPT !.section = section, !.key = key],
                 m_data, [NoRet EXCEPT !.has = o.has, !.str = o.str],
                 NoIStream, NoOStream)

\* manager[section][key] = value: the reference section_accessor returns is
\* assigned a std::string
index_write(S, K, V) ==
    \E section \in S, key \in K, value \in V :
        Call("operator[] =", Args(section, key, value, "string"),
             Assign(m_data, section, key, value.str), NoRet, NoIStream, NoOStream)

\* a mutant of load_stream: m_file_path is left as it was
load_stream_keeps_path(T, F) ==
    \E text \in T, fault \in F :
        LET r == parse(EmptyMap, IStream(text, fault))
        IN  FileCall("load_stream", NoArg, r.data, Expected(r.ok), r.stream,
                     m_file_path, files, path_known, EmptyStr)

\* a mutant of load_stream: the mapping that was there is put back when
\* parse fails
load_stream_rolls_back(T, F) ==
    \E text \in T, fault \in F :
        LET r == parse(EmptyMap, IStream(text, fault))
        IN  FileCall("load_stream", NoArg, IF r.ok THEN r.data ELSE m_data,
                     Expected(r.ok), r.stream,
                     EmptyStr, files, path_known, EmptyStr)

\* a mutant of load_stream: the mapping is not replaced before parsing
load_stream_keeps_data(T, F) ==
    \E text \in T, fault \in F :
        LET r == parse(m_data, IStream(text, fault))
        IN  FileCall("load_stream", NoArg, r.data, Expected(r.ok), r.stream,
                     EmptyStr, files, path_known, EmptyStr)

\* from_stream: a manager is constructed and returned when parse succeeds
from_stream(T, F) ==
    \E text \in T, fault \in F :
        LET r == parse(EmptyMap, IStream(text, fault))
        IN  IF r.ok
            THEN FileCall("from_stream", NoArg, r.data, Expected(TRUE), r.stream,
                          EmptyStr, files, EmptyStr, EmptyStr)
            ELSE Call("from_stream", NoArg, m_data, Expected(FALSE), r.stream,
                      NoOStream)

load_stream(T, F) ==
    \E text \in T, fault \in F :
        LET r == parse(EmptyMap, IStream(text, fault))
        IN  FileCall("load_stream", NoArg, r.data, Expected(r.ok), r.stream,
                     EmptyStr, files, path_known, EmptyStr)

add_from_stream(T, F) ==
    \E text \in T, fault \in F :
        LET r == parse(m_data, IStream(text, fault))
        IN  Call("add_from_stream", NoArg, r.data, Expected(r.ok), r.stream, NoOStream)

\* from_file: a manager is constructed and returned when load succeeds
from_file(P, F) ==
    \E file_path \in P, fault \in F :
        LET r == load(EmptyMap, files, file_path, fault)
            a == [NoArg EXCEPT !.file_path = file_path]
        IN  IF r.ret.has
            THEN FileCall("from_file", a, r.data, r.ret, NoIStream,
                          file_path, files, file_path, file_path)
            ELSE Call("from_file", a, m_data, r.ret, NoIStream, NoOStream)

\* a mutant of load_file: m_file_path is left as it was
load_file_keeps_path(P, F) ==
    \E file_path \in P, fault \in F :
        LET r == load(EmptyMap, files, file_path, fault)
        IN  FileCall("load_file", [NoArg EXCEPT !.file_path = file_path],
                     r.data, r.ret, NoIStream,
                     m_file_path, files, file_path, file_path)

load_file(P, F) ==
    \E file_path \in P, fault \in F :
        LET r == load(EmptyMap, files, file_path, fault)
        IN  FileCall("load_file", [NoArg EXCEPT !.file_path = file_path],
                     r.data, r.ret, NoIStream,
                     file_path, files, file_path, file_path)

add_from_file(P, F) ==
    \E file_path \in P, fault \in F :
        LET r == load(m_data, files, file_path, fault)
        IN  Call("add_from_file", [NoArg EXCEPT !.file_path = file_path],
                 r.data, r.ret, NoIStream, NoOStream)

\* write_file(file_path)
write_file(P, R) ==
    \E file_path \in P, room \in R :
        LET w == write_file_(m_data, files, file_path, room)
        IN  FileCall("write_file", [NoArg EXCEPT !.file_path = file_path],
                     m_data, w.ret, NoIStream, m_file_path, w.files,
                     IF w.ret.has THEN file_path ELSE path_known, path_loaded)

\* write_file()
write_file_back(R) ==
    \E room \in R :
        LET w == write_file_back_(m_data, files, m_file_path, room)
        IN  FileCall("write_file()", NoArg, m_data, w.ret, NoIStream,
                     m_file_path, w.files, path_known, path_loaded)

\* a mutant of extract: the stream is left as parse left it
extract_leaves_stream(T, F) ==
    \E text \in T, fault \in F :
        LET r == parse(m_data, IStream(text, fault))
        IN  Call("operator>>", NoArg, r.data, NoRet, r.stream, NoOStream)

\* operator>>(istream, manager)
extract(T, F) ==
    \E text \in T, fault \in F :
        LET r == parse(m_data, IStream(text, fault))
        IN  Call("operator>>", NoArg, r.data, NoRet,
                 IF r.ok THEN r.stream ELSE [r.stream EXCEPT !.failbit = TRUE],
                 NoOStream)

\* operator<<(ostream, manager)
insert(R) ==
    \E room \in R :
        LET r == write(m_data, OStream(room))
        IN  Call("operator<<", NoArg, m_data, NoRet, NoIStream,
                 IF r.ok THEN r.stream ELSE [r.stream EXCEPT !.failbit = TRUE])

(***************************************************************************)
(* Several objects on one mapping: ini_manager copies and section          *)
(* accessors hold a std::shared_ptr<data_map> each.                        *)
(***************************************************************************)
\* the ini_manager objects of a program, and the addresses of its data_maps
Handles == {"A", "B"}
Cells == 1..4
null == 0

\* an ini_manager that has not been constructed, and no section_accessor
NoManager == [m_data |-> null, m_file_path |-> EmptyStr]
NoAccessor == [m_data |-> null, m_section_name |-> EmptyStr]

\* one ini_manager, followed through m_data and m_file_path alone
OneManager ==
    /\ heap = <<>>
    /\ managers = <<>>
    /\ accessor = NoAccessor
    /\ self = "A"
    /\ since_copy = {}

\* the addresses some shared_ptr holds
Owned(ms, ac) == ({ms[h].m_data : h \in Handles} \cup {ac.m_data}) \ {null}

\* std::make_shared<data_map>(): the address of the new, empty data_map
make_shared(ms, ac) == CHOOSE c \in Cells \ Owned(ms, ac) :
                            \A d \in Cells \ Owned(ms, ac) : c <= d

\* ~shared_ptr: a data_map no shared_ptr holds any more is destroyed
Release(hp, ms, ac) ==
    [c \in Cells |-> IF c \in Owned(ms, ac) THEN hp[c] ELSE EmptyMap]

\* *m_data of the ini_manager h
View(h) == heap[managers[h].m_data]

\* a call on the ini_manager h that leaves hp, ms and ac behind
HandleCall(h, name, a, r, hp, ms, ac) ==
    /\ op' = name
    /\ arg' = a
    /\ ret' = r
    /\ heap' = Release(hp, ms, ac)
    /\ managers' = ms
    /\ accessor' = ac
    /\ self' = h
    /\ m_data' = hp[ms[h].m_data]
    /\ m_file_path' = ms[h].m_file_path
    /\ since_copy' = since_copy \cup ({name} \cap {"load_stream", "load_file"})
    /\ UNCHANGED <<pre, istream, ostream, files, path_known, path_loaded>>

\* a call on the ini_manager h that changes *m_data to data and nothing else
Mutate(h, name, a, data, r) ==
    HandleCall(h, name, a, r,
               [heap EXCEPT ![managers[h].m_data] = data], managers, accessor)

\* a mutant of copy: the copy gets a data_map of its own with the same entries
copy_deep(From, To) ==
    \E from \in From, to \in To :
        /\ from # to
        /\ managers[from].m_data # null
        /\ LET rest == [managers EXCEPT ![to] = NoManager]
               c == make_shared(rest, accessor)
               ms == [managers EXCEPT ![to] = [managers[from] EXCEPT !.m_data = c]]
           IN  /\ heap' = Release([heap EXCEPT ![c] = View(from)], ms, accessor)
               /\ managers' = ms
               /\ m_data' = View(from)
               /\ m_file_path' = ms[to].m_file_path
        /\ op' = "copy"
        /\ arg' = NoArg
        /\ ret' = NoRet
        /\ self' = to
        /\ since_copy' = {}
        /\ UNCHANGED <<pre, istream, ostream, accessor, files, path_known, path_loaded>>

\* ini_manager to = from: the implicit copy constructor and copy assignment
\* copy the members, the shared_ptr m_data and m_file_path
copy(From, To) ==
    \E from \in From, to \in To :
        /\ from # to
        /\ managers[from].m_data # null
        /\ LET ms == [managers EXCEPT ![to] = managers[from]]
           IN  /\ heap' = Release(heap, ms, accessor)
               /\ managers' = ms
               /\ m_data' = heap[ms[to].m_data]
               /\ m_file_path' = ms[to].m_file_path
        /\ op' = "copy"
        /\ arg' = NoArg
        /\ ret' = NoRet
        /\ self' = to
        /\ since_copy' = {}
        /\ UNCHANGED <<pre, istream, ostream, accessor, files, path_known, path_loaded>>

\* h.set_value(section, key, value)
on_set_value(H, S, K, V) ==
    \E h \in H, section \in S, key \in K, value \in V :
        /\ managers[h].m_data # null
        /\ Mutate(h, "set_value", Args(section, key, value, value.type),
                  set_value_(View(h), section, key, value), NoRet)

\* h.set_section(section)
on_set_section(H, S) ==
    \E h \in H, section \in S :
        /\ managers[h].m_data # null
        /\ Mutate(h, "set_section", [NoArg EXCEPT !.section = section],
                  set_section_(View(h), section), NoRet)

\* h.remove_value(section, key)
on_remove_value(H, S, K) ==
    \E h \in H, section \in S, key \in K :
        /\ managers[h].m_data # null
        /\ LET r == remove_value_(View(h), section, key)
           IN  Mutate(h, "remove_value",
                      [NoArg EXCEPT !.section = section, !.key = key],
                      r.data, [NoRet EXCEPT !.bool = r.bool])

\* h.remove_section(section)
on_remove_section(H, S) ==
    \E h \in H, section \in S :
        /\ managers[h].m_data # null
        /\ LET r == remove_section_(View(h), section)
           IN  Mutate(h, "remove_section", [NoArg EXCEPT !.section = section],
                      r.data, [NoRet EXCEPT !.bool = r.bool])

\* h.add_from_stream(istream)
on_add_from_stream(H, T, F) ==
    \E h \in H, text \in T, fault \in F :
        /\ managers[h].m_data # null
        /\ LET r == parse(View(h), IStream(text, fault))
           IN  Mutate(h, "add_from_stream", NoArg, r.data, Expected(r.ok))

\* h.add_from_file(file_path)
on_add_from_file(H, P, F) ==
    \E h \in H, file_path \in P, fault \in F :
        /\ managers[h].m_data # null
        /\ LET r == load(View(h), files, file_path, fault)
           IN  Mutate(h, "add_from_file", [NoArg EXCEPT !.file_path = file_path],
                      r.data, r.ret)

\* a mutant of on_load_stream: the data_map is emptied where it is
on_load_stream_in_place(H, T, F) ==
    \E h \in H, text \in T, fault \in F :
        /\ managers[h].m_data # null
        /\ LET r == parse(EmptyMap, IStream(text, fault))
           IN  HandleCall(h, "load_stream", NoArg, Expected(r.ok),
                          [heap EXCEPT ![managers[h].m_data] = r.data],
                          [managers EXCEPT ![h].m_file_path = EmptyStr], accessor)

\* h.load_stream(istream): m_data = std::make_shared<data_map>(),
\* m_file_path.clear(), parse(istream)
on_load_stream(H, T, F) ==
    \E h \in H, text \in T, fault \in F :
        /\ managers[h].m_data # null
        /\ LET c == make_shared(managers, accessor)
               r == parse(EmptyMap, IStream(text, fault))
           IN  HandleCall(h, "load_stream", NoArg, Expected(r.ok),
                          [heap EXCEPT ![c] = r.data],
                          [managers EXCEPT ![h] = [m_data |-> c, m_file_path |-> EmptyStr]],
                          accessor)

\* h.load_file(file_path): m_data = std::make_shared<data_map>(),
\* m_file_path = file_path, load(file_path)
on_load_file(H, P, F) ==
    \E h \in H, file_path \in P, fault \in F :
        /\ managers[h].m_data # null
        /\ LET c == make_shared(managers, accessor)
               r == load(EmptyMap, files, file_path, fault)
           IN  HandleCall(h, "load_file", [NoArg EXCEPT !.file_path = file_path],
                          r.ret, [heap EXCEPT ![c] = r.data],
                          [managers EXCEPT ![h] = [m_data |-> c, m_file_path |-> file_path]],
                          accessor)

\* a mutant of index: the section is created when the accessor is formed
index_creates(H, S) ==
    \E h \in H, section \in S :
        /\ managers[h].m_data # null
        /\ HandleCall(h, "operator[]", [NoArg EXCEPT !.section = section], NoRet,
                      [heap EXCEPT ![managers[h].m_data] = set_section_(View(h), section)],
                      managers,
                      [m_data |-> managers[h].m_data, m_section_name |-> section])

\* h[section] on an ini_manager that is not const: a section_accessor
\* holding h's m_data and the name
index(H, S) ==
    \E h \in H, section \in S :
        /\ managers[h].m_data # null
        /\ HandleCall(h, "operator[]", [NoArg EXCEPT !.section = section], NoRet, heap, managers,
                      [m_data |-> managers[h].m_data, m_section_name |-> section])

\* a call on the section_accessor that changes its *m_data to data
AccessorCall(name, a, r, data) ==
    /\ op' = name
    /\ arg' = a
    /\ ret' = r
    /\ heap' = [heap EXCEPT ![accessor.m_data] = data]
    /\ self' = "accessor"
    /\ m_data' = data
    /\ UNCHANGED <<pre, istream, ostream, managers, accessor, m_file_path, files,
                   path_known, path_loaded, since_copy>>

\* a mutant of accessor_read: a section or key that is absent is not created
accessor_read_finds(K) ==
    \E key \in K :
        /\ accessor.m_data # null
        /\ LET m == heap[accessor.m_data]
               o == Lookup(m, accessor.m_section_name, key)
           IN  AccessorCall("section_accessor::operator[]",
                            [NoArg EXCEPT !.section = accessor.m_section_name, !.key = key],
                            Returned(StringValue(o.str)), m)

\* the section_accessor's operator[](key), read:
\* (*m_data)[m_section_name][std::string{key}], where std::map::operator[]
\* inserts a value-initialized element for a name that is absent
accessor_read(K) ==
    \E key \in K :
        /\ accessor.m_data # null
        /\ LET m == heap[accessor.m_data]
               entries == Entries(m, accessor.m_section_name)
               value == IF key \in DOMAIN entries THEN entries[key] ELSE EmptyStr
           IN  AccessorCall("section_accessor::operator[]",
                            [NoArg EXCEPT !.section = accessor.m_section_name, !.key = key],
                            Returned(StringValue(value)),
                            Assign(m, accessor.m_section_name, key, value))

\* the section_accessor's operator[](key) = value
accessor_write(K, V) ==
    \E key \in K, value \in V :
        /\ accessor.m_data # null
        /\ AccessorCall("section_accessor::operator[] =",
                        Args(accessor.m_section_name, key, value, "string"), NoRet,
                        Assign(heap[accessor.m_data], accessor.m_section_name,
                               key, value.str))

(***************************************************************************)
(* Texts: the lines of an input joined by "\n".  A text whose last line is *)
(* empty ends with a newline; any other text has an unterminated last line.*)
(***************************************************************************)
RECURSIVE JoinLines(_)
JoinLines(lines) ==
    IF lines = <<>> THEN EmptyStr
    ELSE IF Len(lines) = 1 THEN lines[1]
    ELSE lines[1] \o <<LF>> \o JoinLines(Tail(lines))

\* every text of at most MaxLines lines taken from L
TextsOf(L) == { JoinLines(ls) : ls \in UNION { [1..n -> L] : n \in 0..MaxLines } }

(***************************************************************************)
(* The files there are before any call: one that holds a section with a    *)
(* key, and one that does not exist yet in a directory that does.          *)
(***************************************************************************)
Disk ==
    (<<"p">> :> [exists |-> TRUE,
                 text |-> <<"[", "a", "]", LF, "k", "=", "v", LF>>])
    @@ (<<"q">> :> [exists |-> FALSE, text |-> EmptyStr])

(***************************************************************************)
(* Spec: a manager under any sequence of calls, over a few plain names.    *)
(***************************************************************************)
Sections == { <<"a">>, <<"b">> }
Keys == { <<"k">>, <<"j">> }
Values == { StringValue(<<"v">>), IntValue(7) }
Types == { "string", "int", "bool" }

\* the texts a stream holds: a header alone, pairs under a header, and a
\* pair that no header precedes
SmallTexts ==
    { <<"[", "a", "]">>,
      <<"[", "a", "]", LF, "k", SP, "=", SP, "v", LF>>,
      <<"[", "b", "]", LF, "j", "=", "7">>,
      <<"k", "=", "v", LF, "[", "b", "]", LF>>,
      <<"[", "a", "]", LF, "k", "=", "v", LF, "[", "a", "]", LF, "j", "=", "7", LF>> }

\* a stream that meets no device error
NoFault == {0}

\* the defaults handed to get_value_or_default, one of each T
Defaults == { StringValue(<<"d">>), IntValue(-7), BoolValue(TRUE) }

\* a stream whose device takes any number of characters
NoLimit == {-1}

\* the std::string values assigned through manager[section][key]
Strings == { StringValue(<<"v">>), StringValue(EmptyStr) }

Init ==
    /\ m_data = EmptyMap
    /\ op = "init"
    /\ arg = NoArg
    /\ pre = EmptyMap
    /\ ret = NoRet
    /\ istream = NoIStream
    /\ ostream = NoOStream
    /\ m_file_path = EmptyStr
    /\ files = Disk
    /\ path_known = EmptyStr
    /\ path_loaded = EmptyStr
    /\ OneManager

Next ==
    \/ set_value(Sections, Keys, Values)
    \/ set_section(Sections)
    \/ remove_value(Sections, Keys)
    \/ remove_section(Sections)
    \/ get_value(Sections, Keys, Types)
    \/ get_value_or_default(Sections, Keys, Defaults)
    \/ get_sections
    \/ get_keys(Sections)
    \/ index_read(Sections, Keys)
    \/ index_write(Sections, Keys, Strings)
    \/ insert(NoLimit)
    \/ add_from_stream(SmallTexts, NoFault)
    \/ load_stream(SmallTexts, NoFault)

Spec == Init /\ [][Next]_vars

(***************************************************************************)
(* SpecParse: one parsing call on a store, over texts whose lines cover    *)
(* the forms the parser tells apart, with and without a device error.      *)
(***************************************************************************)
LineSet ==
    { <<"[", "a", "]">>,
      <<SP, "[", SP, "b", SP, "]", CR>>,
      <<"[", "]">>,
      <<"k", "=", "v">>,
      <<TAB, "k", SP, "=", SP, "w", SP>>,
      <<"=", "v">>,
      <<";", "k", "=", "v">>,
      <<"#", "[", "a", "]">>,
      <<"k", "v">>,
      <<"[", "a">>,
      <<"j", "=", "v", "=", "w">>,
      EmptyStr }
Texts == TextsOf(LineSet)

\* no device error, or one at the second read: before its line, or within it
Faults == {0, 2, -2}

\* the paths of Disk: a file that is there and one that is not
DiskPaths == DOMAIN Disk

\* an output device that takes everything, nothing, or all but the last
\* character of what the stores of ParseStores are written as
Rooms == {-1, 0, 15}

\* the stores a parsing call starts from
ParseStores ==
    { EmptyMap,
      set_section_(set_value_(EmptyMap, <<"a">>, <<"k">>, StringValue(<<"o">>)), <<"b">>) }

InitParse ==
    /\ m_data \in ParseStores
    /\ op = "init"
    /\ arg = NoArg
    /\ pre = EmptyMap
    /\ ret = NoRet
    /\ istream = NoIStream
    /\ ostream = NoOStream
    /\ m_file_path = EmptyStr
    /\ files = Disk
    /\ path_known = EmptyStr
    /\ path_loaded = EmptyStr
    /\ OneManager

NextParse ==
    /\ op = "init"
    /\ \/ from_stream(Texts, Faults)
       \/ load_stream(Texts, Faults)
       \/ add_from_stream(Texts, Faults)
       \/ extract(Texts, Faults)
       \/ insert(Rooms)
       \/ load_file(DiskPaths, Faults)

SpecParse == InitParse /\ [][NextParse]_vars

(***************************************************************************)
(* SpecRoundTrip: a store populated by set_value alone is written with     *)
(* operator<< and the text is read back with from_stream.  The names and   *)
(* values include the ones the text format has no way to write down.       *)
(***************************************************************************)
RTSections ==
    { <<"a">>, EmptyStr, <<"a", SP>>, <<"a", LF, "b">> }
RTKeys ==
    { <<"k">>, EmptyStr, <<"k", "=", "j">>, <<"#", "k">>, <<"[", "k">> }
RTValues ==
    { StringValue(<<"v">>), StringValue(EmptyStr), StringValue(<<"v", TAB>>),
      StringValue(<<"v", "]">>) }

\* the number of (section, key) entries of a mapping
NumEntries(m) == Cardinality(UNION { { <<s, k>> : k \in DOMAIN m[s] } : s \in DOMAIN m })

NextRoundTrip ==
    \/ /\ op \in {"init", "set_value"}
       /\ NumEntries(m_data) < MaxSets
       /\ set_value(RTSections, RTKeys, RTValues)
    \/ /\ op \in {"init", "set_value"}
       /\ insert(NoLimit)
    \/ /\ op = "operator<<"
       /\ from_stream({ostream.buf}, NoFault)

SpecRoundTrip == Init /\ [][NextRoundTrip]_vars

(***************************************************************************)
(* SpecTyped: one set_value<T> on a store and one get_value<T> after it,   *)
(* over texts that are, nearly are, or are not numbers and booleans.       *)
(***************************************************************************)
\* an int and the text std::format gives it
IntSamples ==
    { <<0, <<"0">>>>, <<7, <<"7">>>>, <<-7, <<"-", "7">>>>,
      <<123, <<"1", "2", "3">>>>, <<-120, <<"-", "1", "2", "0">>>>,
      <<INT_MAX, <<"2", "1", "4", "7", "4", "8", "3", "6", "4", "7">>>>,
      <<INT_MIN, <<"-", "2", "1", "4", "7", "4", "8", "3", "6", "4", "8">>>> }

\* a bool and the text std::format gives it
BoolSamples ==
    { <<TRUE, <<"t", "r", "u", "e">>>>, <<FALSE, <<"f", "a", "l", "s", "e">>>> }

NumberTexts ==
    { <<"1", "2">>, <<SP, "1", "2">>, <<"1", "2", SP>>, <<TAB, "-", "3">>,
      <<"+", "4">>, <<"0", "0", "7">>, <<"-", "0">>, <<"1", "x">>, <<"x", "1">>,
      <<"1", SP, "2">>, <<"-">>, <<"-", SP, "5">>, <<"+", "-", "5">>, <<"a", "b", "c">>,
      EmptyStr, <<SP>>,
      <<"2", "1", "4", "7", "4", "8", "3", "6", "4", "8">>,
      <<"-", "2", "1", "4", "7", "4", "8", "3", "6", "4", "9">>,
      <<"9", "9", "9", "9", "9", "9", "9", "9", "9", "9", "9">>,
      <<"0", "0", "2", "1", "4", "7", "4", "8", "3", "6", "4", "7">> }

BooleanTexts ==
    { <<"T", "r", "u", "e">>, <<"T", "R", "U", "E">>, <<SP, "t", "r", "u", "e", LF>>,
      <<"t", "r", "u">>, <<"t", "r", "u", "e", "e">>, <<"t", SP, "r", "u", "e">>,
      <<"1">>, <<"0">>, <<TAB, "0", CR>>, <<"0", "1">>, <<"1", "0">>,
      <<"F", "a", "l", "s", "e">>, <<"f", "A", "L", "S", "E", SP>>,
      <<"m", "a", "y", "b", "e">>, <<"y", "e", "s">>, <<"n", "o">> }

TypedValues ==
    { IntValue(p[1]) : p \in IntSamples } \cup { BoolValue(p[1]) : p \in BoolSamples }
    \cup { StringValue(p[2]) : p \in IntSamples }
    \cup { StringValue(p[2]) : p \in BoolSamples }
    \cup { StringValue(s) : s \in NumberTexts \cup BooleanTexts }

\* the stores the set_value call starts from
TypedStores ==
    { EmptyMap,
      set_value_(set_value_(EmptyMap, <<"a">>, <<"j">>, StringValue(<<"x">>)),
                 <<"b">>, <<"k">>, StringValue(<<"1", "2">>)) }

InitTyped ==
    /\ m_data \in TypedStores
    /\ op = "init"
    /\ arg = NoArg
    /\ pre = EmptyMap
    /\ ret = NoRet
    /\ istream = NoIStream
    /\ ostream = NoOStream
    /\ m_file_path = EmptyStr
    /\ files = Disk
    /\ path_known = EmptyStr
    /\ path_loaded = EmptyStr
    /\ OneManager

NextTyped ==
    \/ /\ op = "init"
       /\ set_value(Sections, Keys, TypedValues)
    \/ /\ op \in {"init", "set_value"}
       /\ get_value(Sections, Keys, Types)
    \/ /\ op \in {"init", "set_value"}
       /\ get_value_or_default(Sections, Keys, Defaults)

SpecTyped == InitTyped /\ [][NextTyped]_vars

(***************************************************************************)
(* SpecFile: a manager loaded from and written to files, by path and by    *)
(* the path it remembers.                                                  *)
(***************************************************************************)
\* the paths handed to the calls: the two of Disk, the empty path, and a
\* path in a directory that does not exist
FilePaths == { <<"p">>, <<"q">>, EmptyStr, <<"x", "/", "p">> }

NextFile ==
    \/ from_file(FilePaths, NoFault)
    \/ load_file(FilePaths, NoFault)
    \/ add_from_file(FilePaths, NoFault)
    \/ write_file(FilePaths, NoLimit)
    \/ write_file_back(NoLimit)
    \/ load_stream({<<"[", "b", "]">>}, NoFault)
    \/ add_from_stream({<<"[", "b", "]">>}, NoFault)
    \/ set_value({<<"a">>}, {<<"j">>}, {StringValue(<<"w">>)})

SpecFile == Init /\ [][NextFile]_vars

(***************************************************************************)
(* SpecSyntax: one parsing call over texts whose lines are headers and     *)
(* pairs written with further '=' signs, brackets and nothing at all.      *)
(***************************************************************************)
SyntaxLines ==
    { <<"[", "a", "]">>,
      <<"k", "=", "v">>,
      <<"k", "=">>,
      <<"k", SP, "=", SP, "v", "=", "w", SP>>,
      <<"j", "=", "=">>,
      <<"[", "a", "=", "b", "]">>,
      <<"[", "[", "a", "]", "]">>,
      <<"[", SP, "]">>,
      <<"[", "]">>,
      <<"[", "b">>,
      <<"[", "b", "=", "v">> }
SyntaxTexts == TextsOf(SyntaxLines)

NextSyntax ==
    /\ op = "init"
    /\ \/ from_stream(SyntaxTexts, NoFault)
       \/ load_stream(SyntaxTexts, NoFault)
       \/ add_from_stream(SyntaxTexts, NoFault)
       \/ extract(SyntaxTexts, NoFault)

SpecSyntax == InitParse /\ [][NextSyntax]_vars

(***************************************************************************)
(* SpecReparse: a store made by from_stream is written with operator<<     *)
(* and the text is read back with from_stream.                             *)
(***************************************************************************)
ReparseTexts == Texts \cup SyntaxTexts

NextReparse ==
    \/ /\ op = "init"
       /\ from_stream(ReparseTexts, NoFault)
    \/ /\ op = "from_stream"
       /\ pre = EmptyMap
       /\ istream.buf \in ReparseTexts
       /\ insert(NoLimit)
    \/ /\ op = "operator<<"
       /\ from_stream({ostream.buf}, NoFault)

SpecReparse == Init /\ [][NextReparse]_vars

(***************************************************************************)
(* SpecAlias: two ini_manager objects, the second a copy of the first, and *)
(* a section_accessor, with calls made on each of them.                    *)
(***************************************************************************)
AliasSections == { <<"a">> }
AliasKeys == { <<"k">> }
AliasValues == { StringValue(<<"v">>) }
AliasTexts == { <<"[", "a", "]">> }
AliasPaths == { <<"p">> }

InitAlias ==
    /\ m_data = EmptyMap
    /\ op = "init"
    /\ arg = NoArg
    /\ pre = EmptyMap
    /\ ret = NoRet
    /\ istream = NoIStream
    /\ ostream = NoOStream
    /\ m_file_path = EmptyStr
    /\ files = Disk
    /\ path_known = EmptyStr
    /\ path_loaded = EmptyStr
    /\ heap = [c \in Cells |-> EmptyMap]
    /\ managers = [h \in Handles |-> IF h = "A" THEN [m_data |-> 1, m_file_path |-> EmptyStr]
                                     ELSE NoManager]
    /\ accessor = NoAccessor
    /\ self = "A"
    /\ since_copy = {}

NextAlias ==
    \/ copy(Handles, Handles)
    \/ on_set_value(Handles, AliasSections, AliasKeys, AliasValues)
    \/ on_set_section(Handles, AliasSections)
    \/ on_remove_value(Handles, AliasSections, AliasKeys)
    \/ on_remove_section(Handles, AliasSections)
    \/ on_add_from_stream(Handles, AliasTexts, NoFault)
    \/ on_add_from_file(Handles, AliasPaths, NoFault)
    \/ on_load_stream(Handles, AliasTexts, NoFault)
    \/ on_load_file(Handles, AliasPaths, NoFault)
    \/ index(Handles, AliasSections)
    \/ accessor_read(AliasKeys)
    \/ accessor_write(AliasKeys, AliasValues)

SpecAlias == InitAlias /\ [][NextAlias]_vars

(***************************************************************************)
(* What the claims speak of.                                               *)
(***************************************************************************)
\* str neither begins nor ends with a space, tab, CR or LF
IsTrimmed(str) ==
    str = EmptyStr \/ (str[1] \notin {SP, TAB, CR, LF} /\ str[Len(str)] \notin {SP, TAB, CR, LF})

Contains(str, ch) == \E i \in 1..Len(str) : str[i] = ch

\* the lines of a text: the pieces between its newlines, without the empty
\* piece after a final newline
RECURSIVE SplitLines(_)
SplitLines(text) ==
    IF text = EmptyStr THEN <<>>
    ELSE IF ~Contains(text, LF) THEN <<text>>
    ELSE LET i == CHOOSE i \in 1..Len(text) :
                    text[i] = LF /\ \A j \in 1..(i - 1) : text[j] # LF
         IN  <<SubSeq(text, 1, i - 1)>> \o SplitLines(SubSeq(text, i + 1, Len(text)))

\* the text of some lines, each ended by a newline
RECURSIVE Unlines(_)
Unlines(lines) ==
    IF lines = <<>> THEN EmptyStr
    ELSE Head(lines) \o <<LF>> \o Unlines(Tail(lines))

\* what parsing a text into a mapping gives when no read fails
Parsed(m, text) == parse(m, IStream(text, 0)).data

\* the parsing calls, and the mapping each parses into
ParseOps == {"from_stream", "load_stream", "add_from_stream", "operator>>"}
MergeOps == {"add_from_stream", "operator>>"}
Base == IF op \in MergeOps THEN pre ELSE EmptyMap

\* the call read its stream to the end and met no device error
ReadToEnd == op \in ParseOps /\ istream.eofbit /\ ~istream.badbit

\* new laid over old: the sections and keys of both, the values of new
\* where new has the key
Overlay(old, new) ==
    [s \in (DOMAIN old) \cup (DOMAIN new) |->
        [k \in (DOMAIN Entries(old, s)) \cup (DOMAIN Entries(new, s)) |->
            IF k \in DOMAIN Entries(new, s) THEN new[s][k] ELSE old[s][k]]]

(***************************************************************************)
(* C1.  Round trip of a store populated by set_value alone.                *)
(***************************************************************************)
\* C1 as stated: for every store populated only through set_value calls,
\* whatever the section names, key names and values, writing the store and
\* parsing the text into a fresh store gives the original mapping.
C1_RoundTripAnyNames == op = "from_stream" => m_data = pre

\* a name or value that survives being written on a line and trimmed
OneLineTrimmed(str) == IsTrimmed(str) /\ ~Contains(str, LF)

\* a pair that is written as a line the parser reads back as the same pair
WritablePair(key, value) ==
    /\ key # EmptyStr
    /\ OneLineTrimmed(key)
    /\ ~Contains(key, "=")
    /\ key[1] \notin {";", "#"}
    /\ OneLineTrimmed(value)
    /\ ~(key[1] = "[" /\ value # EmptyStr /\ value[Len(value)] = "]")

Writable(m) ==
    \A s \in DOMAIN m :
        /\ OneLineTrimmed(s)
        /\ \A k \in DOMAIN m[s] : WritablePair(k, m[s][k])

\* C1, for the names the format can carry: the round trip gives the
\* original mapping when every section name, key and value is free of
\* newlines and of leading and trailing whitespace, every key is non-empty,
\* holds no '=' and does not begin with ';' or '#', and no key beginning
\* with '[' has a value ending with ']'.
C1_RoundTripWritable == op = "from_stream" /\ Writable(pre) => m_data = pre

\* two sections, one of them the empty name, a key beginning with '[' and an
\* empty value went through the round trip
C1_Witness ==
    /\ op = "from_stream"
    /\ Writable(pre)
    /\ m_data = pre
    /\ DOMAIN pre = { EmptyStr, <<"a">> }
    /\ <<"[", "k">> \in DOMAIN pre[EmptyStr]
    /\ \E k \in DOMAIN pre[<<"a">>] : pre[<<"a">>][k] = EmptyStr

(***************************************************************************)
(* C2.  Overlay merge.                                                     *)
(***************************************************************************)
\* C2: add_from_stream and operator>> leave the mapping that was there with
\* the mapping of the stream laid over it: the stream's sections and keys
\* are added, the keys it gives again take its value, all else is kept.
C2_OverlayMerge ==
    op \in MergeOps /\ ReadToEnd => m_data = Overlay(pre, Parsed(EmptyMap, istream.buf))

\* a key was overwritten, a section came new and a section the stream does
\* not name was kept
C2_Witness ==
    /\ op = "add_from_stream"
    /\ ReadToEnd
    /\ <<"a">> \in DOMAIN pre
    /\ <<"b">> \in DOMAIN pre
    /\ <<"b">> \in DOMAIN m_data
    /\ EmptyStr \in DOMAIN m_data
    /\ pre[<<"a">>][<<"k">>] = <<"o">>
    /\ m_data[<<"a">>] = (<<"k">> :> <<"v">>)

(***************************************************************************)
(* C3.  Replace load.                                                      *)
(***************************************************************************)
\* the sections a text declares: the trimmed bodies of its header lines
Declared(text) ==
    LET lines == SplitLines(text)
        IsHeader(l) == Len(l) >= 2 /\ l[1] = "[" /\ l[Len(l)] = "]"
    IN  { trim(SubSeq(trim(lines[i]), 2, Len(trim(lines[i])) - 1)) :
            i \in { j \in 1..Len(lines) : IsHeader(trim(lines[j])) } }

\* C3: after a successful load_stream the mapping is what parsing the text
\* into an empty store gives, and every section left is one the text declares.
C3_ReplaceLoad ==
    op = "load_stream" /\ ret.has =>
        /\ m_data = Parsed(EmptyMap, istream.buf)
        /\ DOMAIN m_data \subseteq Declared(istream.buf)

\* a populated store was loaded over: one old section is gone, the other is
\* declared again and has lost its old key
C3_Witness ==
    /\ op = "load_stream"
    /\ ret.has
    /\ DOMAIN pre = { <<"a">>, <<"b">> }
    /\ DOMAIN m_data = { <<"a">>, EmptyStr }
    /\ <<"k">> \in DOMAIN pre[<<"a">>]
    /\ m_data[<<"a">>] = EmptyMap

(***************************************************************************)
(* C4.  Malformed-content tolerance.                                       *)
(***************************************************************************)
\* an empty line, a comment line, or a line with no '=' that is no header
Ignorable(line) ==
    LET l == trim(line)
    IN  \/ l = EmptyStr
        \/ l[1] \in {";", "#"}
        \/ ~Contains(l, "=") /\ ~(l[1] = "[" /\ l[Len(l)] = "]")

\* the text without its ignorable lines
WithoutIgnorable(text) == Unlines(SelectSeq(SplitLines(text), LAMBDA l : ~Ignorable(l)))

\* C4: a parse that reads its text to a normal end of stream succeeds, and
\* its empty lines, comment lines and lines with no '=' that are no headers
\* change nothing: the mapping is the one the text without them gives.
C4_MalformedTolerance ==
    ReadToEnd =>
        /\ op # "operator>>" => ret.has
        /\ m_data = Parsed(Base, WithoutIgnorable(istream.buf))

\* a comment holding '=' and a line with no '=' came after a header of a
\* section that has a key, and the store is as it was
C4_Witness ==
    /\ op = "add_from_stream"
    /\ ReadToEnd
    /\ ret.has
    /\ SplitLines(istream.buf) = << <<"[", "a", "]">>, <<";", "k", "=", "v">>, <<"k", "v">> >>
    /\ <<"a">> \in DOMAIN pre
    /\ <<"k">> \in DOMAIN pre[<<"a">>]
    /\ m_data = pre

(***************************************************************************)
(* C5.  Trim invariant.                                                    *)
(***************************************************************************)
\* the store holds only what one parsing call put into an empty store
OnlyParsed ==
    /\ op \in ParseOps
    /\ Base = EmptyMap
    /\ op = "from_stream" => ret.has

\* C5: in a store populated only by parsing, no section name, key or value
\* begins or ends with a space, tab, CR or LF.
C5_TrimInvariant ==
    OnlyParsed =>
        \A s \in DOMAIN m_data :
            /\ IsTrimmed(s)
            /\ \A k \in DOMAIN m_data[s] : IsTrimmed(k) /\ IsTrimmed(m_data[s][k])

\* a header and a pair written with spaces, a tab and a CR were stored trimmed
C5_Witness ==
    /\ op = "from_stream"
    /\ ret.has
    /\ SplitLines(istream.buf) =
            << <<SP, "[", SP, "b", SP, "]", CR>>, <<TAB, "k", SP, "=", SP, "w", SP>> >>
    /\ m_data = (<<"b">> :> (<<"k">> :> <<"w">>))

(***************************************************************************)
(* C6.  Pairs before the first header, and pairs with an empty key.        *)
(***************************************************************************)
IsHeaderLine(line) ==
    LET l == trim(line) IN Len(l) >= 2 /\ l[1] = "[" /\ l[Len(l)] = "]"

\* the lines from the first header line on
FromFirstHeader(lines) ==
    IF \E i \in 1..Len(lines) : IsHeaderLine(lines[i])
    THEN SubSeq(lines,
                CHOOSE i \in 1..Len(lines) :
                    IsHeaderLine(lines[i]) /\ \A j \in 1..(i - 1) : ~IsHeaderLine(lines[j]),
                Len(lines))
    ELSE <<>>

\* a line whose key, the text before its first '=', is empty after trimming
EmptyKeyLine(line) == LET l == trim(line) IN l # EmptyStr /\ l[1] = "="

\* the text without the lines before its first header and without the
\* lines whose key is empty
WithoutUnrecorded(text) ==
    Unlines(SelectSeq(FromFirstHeader(SplitLines(text)), LAMBDA l : ~EmptyKeyLine(l)))

\* C6: the lines before the first header of a stream, and the pairs whose
\* key is empty, change nothing, whatever the store held before the call:
\* the mapping is the one the text without them gives.
C6_PairsNeedHeaderAndKey ==
    ReadToEnd => m_data = Parsed(Base, WithoutUnrecorded(istream.buf))

\* a pair came before the first header, of a section the store held with
\* that key, and a pair with an empty key came after: the store is as it was
C6_Witness ==
    /\ op = "add_from_stream"
    /\ ReadToEnd
    /\ SplitLines(istream.buf) = << <<"k", "=", "v">>, <<"[", "a", "]">>, <<"=", "v">> >>
    /\ <<"a">> \in DOMAIN pre
    /\ pre[<<"a">>][<<"k">>] = <<"o">>
    /\ m_data = pre

(***************************************************************************)
(* C7.  set_section never clears.                                          *)
(***************************************************************************)
\* a text that gives a key under each of two headers of the same name
RepeatedHeaderText ==
    <<"[", "a", "]", LF, "k", "=", "v", LF, "[", "a", "]", LF, "j", "=", "7", LF>>

\* C7: set_section on an existing section leaves the whole mapping as it
\* was; a merge keeps every section and every key that was there; and keys
\* given under repeated headers of one name are all in that section.
C7_SetSectionNeverClears ==
    /\ op = "set_section" /\ arg.section \in DOMAIN pre => m_data = pre
    /\ op = "add_from_stream" =>
            \A s \in DOMAIN pre :
                s \in DOMAIN m_data /\ DOMAIN pre[s] \subseteq DOMAIN m_data[s]
    /\ op \in {"add_from_stream", "load_stream"} /\ istream.buf = RepeatedHeaderText =>
            {<<"k">>, <<"j">>} \subseteq DOMAIN m_data[<<"a">>]

\* set_section was called on a section that holds two keys
C7_Witness ==
    /\ op = "set_section"
    /\ arg.section \in DOMAIN pre
    /\ DOMAIN pre[arg.section] = {<<"k">>, <<"j">>}
    /\ m_data = pre

(***************************************************************************)
(* C8.  set_value stores the canonical text.                               *)
(***************************************************************************)
\* the text "{}" gives a value, read off the tables of samples
CanonicalText(value) ==
    IF value.type = "string" THEN value.str
    ELSE IF value.type = "int"
    THEN (CHOOSE p \in IntSamples : p[1] = value.int)[2]
    ELSE (CHOOSE p \in BoolSamples : p[1] = value.bool)[2]

\* C8: after set_value(section, key, value) the canonical text of value is
\* stored under (section, key), the section being created when absent and
\* an earlier value overwritten; every other key and section is as it was;
\* and the same call made again leaves the mapping as it is.
C8_SetValueStoresCanonicalText ==
    op = "set_value" =>
        /\ Lookup(m_data, arg.section, arg.key) =
                [has |-> TRUE, str |-> CanonicalText(arg.value)]
        /\ DOMAIN m_data = (DOMAIN pre) \cup {arg.section}
        /\ \A s \in DOMAIN m_data :
                DOMAIN m_data[s] =
                    (DOMAIN Entries(pre, s))
                        \cup (IF s = arg.section THEN {arg.key} ELSE {})
        /\ \A s \in DOMAIN pre : \A k \in DOMAIN pre[s] :
                (s # arg.section \/ k # arg.key) => m_data[s][k] = pre[s][k]
        /\ set_value_(m_data, arg.section, arg.key, arg.value) = m_data

\* a negative int was stored over an earlier value, next to another section
C8_Witness ==
    /\ op = "set_value"
    /\ arg.value.type = "int"
    /\ arg.value.int < 0
    /\ arg.section \in DOMAIN pre
    /\ arg.key \in DOMAIN pre[arg.section]
    /\ pre[arg.section][arg.key] # m_data[arg.section][arg.key]
    /\ \E s \in DOMAIN pre : s # arg.section /\ m_data[s] = pre[s]

(***************************************************************************)
(* C9.  Typed integer read.                                                *)
(***************************************************************************)
\* the claims' whitespace: space, tab, CR and LF
Whitespace == {SP, TAB, CR, LF}

\* str without the whitespace it begins with
RECURSIVE DropLeadingSpace(_)
DropLeadingSpace(str) ==
    IF str # EmptyStr /\ Head(str) \in Whitespace
    THEN DropLeadingSpace(Tail(str))
    ELSE str

\* str without the whitespace it begins and ends with
RECURSIVE Stripped(_)
Stripped(str) ==
    IF str # EmptyStr /\ Head(str) \in Whitespace THEN Stripped(Tail(str))
    ELSE IF str # EmptyStr /\ str[Len(str)] \in Whitespace
    THEN Stripped(SubSeq(str, 1, Len(str) - 1))
    ELSE str

\* the digits of a literal: what follows its sign, if it has one
Unsigned(t) == IF t # EmptyStr /\ Head(t) \in {"+", "-"} THEN Tail(t) ELSE t
IsNegative(t) == t # EmptyStr /\ Head(t) = "-"

RECURSIVE StripZeros(_)
StripZeros(d) == IF Len(d) > 1 /\ Head(d) = "0" THEN StripZeros(Tail(d)) ELSE d

\* of two digit strings of one length, a denotes no more than b
DigitsLeq(a, b) ==
    \A i \in 1..Len(a) :
        (\A j \in 1..(i - 1) : a[j] = b[j]) => DigitValue(a[i]) <= DigitValue(b[i])

\* the digits denote a magnitude an int of that sign can hold
InIntRange(d, negative) ==
    LET z == StripZeros(d)
        largest == IF negative
                   THEN <<"2", "1", "4", "7", "4", "8", "3", "6", "4", "8">>
                   ELSE <<"2", "1", "4", "7", "4", "8", "3", "6", "4", "7">>
    IN  Len(z) < Len(largest) \/ (Len(z) = Len(largest) /\ DigitsLeq(z, largest))

\* t is, in its entirety, an integer literal an int can hold: an optional
\* sign and then one or more decimal digits
IsIntLiteral(t) ==
    LET d == Unsigned(t)
    IN  /\ d # EmptyStr
        /\ \A i \in 1..Len(d) : IsDigit(d[i])
        /\ InIntRange(d, IsNegative(t))

\* minus the number the digits denote
RECURSIVE BelowZero(_)
BelowZero(d) ==
    IF d = EmptyStr THEN 0
    ELSE BelowZero(SubSeq(d, 1, Len(d) - 1)) * 10 - DigitValue(d[Len(d)])

\* the int an integer literal denotes
LiteralValue(t) ==
    IF IsNegative(t) THEN BelowZero(Unsigned(t)) ELSE -BelowZero(Unsigned(t))

\* the text stored under the section and key of the call
Stored == Lookup(m_data, arg.section, arg.key)

\* C9 as stated: get_value<int> returns n exactly when the stored text,
\* after trimming the whitespace around it, is in its entirety an integer
\* literal denoting n, and returns no value in every other case.
C9_TypedIntReadTrimmed ==
    op = "get_value" /\ arg.type = "int" =>
        /\ ret.has <=> (Stored.has /\ IsIntLiteral(Stripped(Stored.str)))
        /\ ret.has => ret.int = LiteralValue(Stripped(Stored.str))

\* C9: get_value<int> returns n exactly when the stored text is optional
\* leading whitespace, then an optional sign and one or more decimal digits
\* denoting n within the range of int, with nothing after the last digit
\* (whitespace after the number is leftover too); in every other case, an
\* absent section or key among them, it returns no value.
C9_TypedIntRead ==
    op = "get_value" /\ arg.type = "int" =>
        /\ ret.has <=> (Stored.has /\ IsIntLiteral(DropLeadingSpace(Stored.str)))
        /\ ret.has => ret.int = LiteralValue(DropLeadingSpace(Stored.str))

\* a tab and "-3" were stored, and -3 was read
C9_Witness ==
    /\ op = "get_value"
    /\ arg.type = "int"
    /\ Stored = [has |-> TRUE, str |-> <<TAB, "-", "3">>]
    /\ ret.has
    /\ ret.int = -3

(***************************************************************************)
(* C10.  Typed boolean read.                                               *)
(***************************************************************************)
\* t is the word, letter for letter, in whichever case
MatchesIgnoringCase(t, word) ==
    /\ Len(t) = Len(word)
    /\ \A i \in 1..Len(t) :
            \/ t[i] = word[i]
            \/ \E j \in 1..Len(LowerCase) :
                    LowerCase[j] = word[i] /\ UpperCase[j] = t[i]

Truthy(str) ==
    \E word \in {<<"t", "r", "u", "e">>, <<"1">>} :
        MatchesIgnoringCase(Stripped(str), word)
Falsy(str) ==
    \E word \in {<<"f", "a", "l", "s", "e">>, <<"0">>} :
        MatchesIgnoringCase(Stripped(str), word)

\* C10: get_value<bool> returns true exactly when the stored text,
\* lowercased and trimmed, is "true" or "1", returns false exactly when it
\* is "false" or "0", and returns no value for any other text and when the
\* section or key is absent.
C10_TypedBoolRead ==
    op = "get_value" /\ arg.type = "bool" =>
        /\ (ret.has /\ ret.bool) <=> (Stored.has /\ Truthy(Stored.str))
        /\ (ret.has /\ ~ret.bool) <=> (Stored.has /\ Falsy(Stored.str))

\* "fALSE " was stored, and false was read
C10_Witness ==
    /\ op = "get_value"
    /\ arg.type = "bool"
    /\ Stored = [has |-> TRUE, str |-> <<"f", "A", "L", "S", "E", SP>>]
    /\ ret.has
    /\ ~ret.bool

(***************************************************************************)
(* C11.  Numeric round trip.                                               *)
(***************************************************************************)
\* C11: when set_value(S, K, n) with an int n is followed by a read of
\* (S, K), get_value<int> returns n and get_value returns the decimal text
\* of n, for negative, zero and positive n.
C11_NumericRoundTrip ==
    [][ ( /\ op = "set_value"
          /\ arg.value.type = "int"
          /\ op' = "get_value"
          /\ arg'.section = arg.section
          /\ arg'.key = arg.key )
        => /\ arg'.type = "int" => (ret'.has /\ ret'.int = arg.value.int)
           /\ arg'.type = "string" =>
                (ret'.has /\ ret'.str = CanonicalText(arg.value)) ]_vars

\* the least int was stored and read back as an int
C11_Witness ==
    /\ op = "get_value"
    /\ arg.type = "int"
    /\ ret.has
    /\ ret.int = INT_MIN
    /\ Stored.str = CanonicalText(IntValue(INT_MIN))

(***************************************************************************)
(* C12.  get_value_or_default.                                             *)
(***************************************************************************)
\* the T returned by a call, set beside the T fields of another value
SameValue(r, v, type) ==
    IF type = "string" THEN r.str = v.str
    ELSE IF type = "int" THEN r.int = v.int
    ELSE r.bool = v.bool

\* C12: get_value_or_default(section, key, d) returns what get_value<T>
\* returns whenever that yields a value, and d in every other case: an
\* absent section, an absent key, or a stored text that does not convert
\* to T.
C12_GetValueOrDefault ==
    op = "get_value_or_default" =>
        LET typed == get_value_(m_data, arg.section, arg.key, arg.type)
        IN  /\ typed.has => SameValue(ret, typed, arg.type)
            /\ ~typed.has => SameValue(ret, arg.value, arg.type)
            /\ ~Stored.has => SameValue(ret, arg.value, arg.type)
            /\ m_data = pre

\* the stored text was no number and the int default came back
C12_Witness ==
    /\ op = "get_value_or_default"
    /\ arg.type = "int"
    /\ Stored = [has |-> TRUE, str |-> <<"1", "x">>]
    /\ ret.int = -7
    /\ arg.value.int = -7

(***************************************************************************)
(* C13.  remove_value.                                                     *)
(***************************************************************************)
\* the key of the call was in the section of the call before the call
KeyWasThere == arg.section \in DOMAIN pre /\ arg.key \in DOMAIN pre[arg.section]

\* C13: remove_value(section, key) returns true exactly when the key was in
\* that section before the call, and then only that key is gone: every
\* section is still there, the section of the call among them, with every
\* other key and value; when the section or the key is absent it returns
\* false and the whole mapping is as it was.
C13_RemoveValue ==
    op = "remove_value" =>
        /\ ret.bool <=> KeyWasThere
        /\ DOMAIN m_data = DOMAIN pre
        /\ \A s \in DOMAIN pre :
                /\ DOMAIN m_data[s] =
                        (DOMAIN pre[s]) \ (IF s = arg.section THEN {arg.key} ELSE {})
                /\ \A k \in DOMAIN m_data[s] : m_data[s][k] = pre[s][k]
        /\ ~KeyWasThere => m_data = pre

\* the only key of a section was removed, and another section was there
C13_Witness ==
    /\ op = "remove_value"
    /\ ret.bool
    /\ arg.section \in DOMAIN pre
    /\ DOMAIN pre[arg.section] = {arg.key}
    /\ arg.section \in DOMAIN m_data
    /\ DOMAIN m_data[arg.section] = {}
    /\ \E s \in DOMAIN pre : s # arg.section /\ DOMAIN pre[s] # {}

(***************************************************************************)
(* C14.  remove_section.                                                   *)
(***************************************************************************)
\* x is an element of the sequence
Listed(x, seq) == \E i \in 1..Len(seq) : seq[i] = x

\* C14: remove_section(section) returns true exactly when the section was
\* there; afterwards get_sections does not list it, get_keys gives nothing
\* for it and get_value gives no value for any key it held, while every
\* other section is there with its keys and values; on an absent section
\* it returns false and the mapping is as it was.
C14_RemoveSection ==
    op = "remove_section" =>
        /\ ret.bool <=> arg.section \in DOMAIN pre
        /\ ~Listed(arg.section, get_sections_(m_data))
        /\ get_keys_(m_data, arg.section) = <<>>
        /\ \A k \in DOMAIN Entries(pre, arg.section) :
                ~get_value_(m_data, arg.section, k, "string").has
        /\ \A s \in (DOMAIN pre) \ {arg.section} :
                s \in DOMAIN m_data /\ m_data[s] = pre[s]
        /\ DOMAIN m_data \subseteq DOMAIN pre
        /\ arg.section \notin DOMAIN pre => m_data = pre

\* a section holding two keys was removed, and another section stayed
C14_Witness ==
    /\ op = "remove_section"
    /\ ret.bool
    /\ arg.section \in DOMAIN pre
    /\ Cardinality(DOMAIN pre[arg.section]) = 2
    /\ \E s \in DOMAIN m_data : DOMAIN m_data[s] # {}

(***************************************************************************)
(* C15.  Read-only operations are pure.                                    *)
(***************************************************************************)
\* the calls that only read: get_value and get_value<T>,
\* get_value_or_default, get_sections, get_keys, the indexed read of a const
\* manager, and write (through operator<<)
ReadOnlyOps ==
    { "get_value", "get_value_or_default", "get_sections", "get_keys",
      "operator[] const", "operator<<" }

\* C15: after any sequence of calls, a read-only call leaves the mapping as
\* it was, creating no section and no key and changing no value, and for a
\* section or key that is absent get_value, get_value<T> and the read-only
\* indexed access return no value and get_keys returns an empty sequence.
C15_ReadOnlyPure ==
    op \in ReadOnlyOps =>
        /\ m_data = pre
        /\ op \in {"get_value", "operator[] const"} /\ ~Stored.has => ~ret.has
        /\ op = "get_keys" /\ arg.section \notin DOMAIN pre => ret.list = <<>>
        /\ op = "get_sections" /\ pre = EmptyMap => ret.list = <<>>

\* a key that its section does not hold was read through the const index
C15_Witness ==
    /\ op = "operator[] const"
    /\ arg.section \in DOMAIN pre
    /\ DOMAIN pre[arg.section] # {}
    /\ arg.key \notin DOMAIN pre[arg.section]
    /\ ~ret.has
    /\ m_data = pre

(***************************************************************************)
(* C16.  Mutable indexed write.                                            *)
(***************************************************************************)
\* C16: manager[section][key] = v creates the section and the key when
\* they are absent and sets the value to v, over an earlier value if there
\* was one, so that get_value(section, key) returns v; every other section
\* and key is as it was.
C16_IndexedWrite ==
    op = "operator[] =" =>
        /\ arg.section \in DOMAIN m_data
        /\ arg.key \in DOMAIN m_data[arg.section]
        /\ m_data[arg.section][arg.key] = arg.value.str
        /\ get_value_(m_data, arg.section, arg.key, "string") =
                [NoRet EXCEPT !.has = TRUE, !.str = arg.value.str]
        /\ DOMAIN m_data = (DOMAIN pre) \cup {arg.section}
        /\ \A s \in DOMAIN m_data :
                DOMAIN m_data[s] =
                    (DOMAIN Entries(pre, s))
                        \cup (IF s = arg.section THEN {arg.key} ELSE {})
        /\ \A s \in DOMAIN pre : \A k \in DOMAIN pre[s] :
                (s # arg.section \/ k # arg.key) => m_data[s][k] = pre[s][k]

\* a key was written into a section that held another key
C16_Witness ==
    /\ op = "operator[] ="
    /\ arg.section \in DOMAIN pre
    /\ arg.key \notin DOMAIN pre[arg.section]
    /\ DOMAIN pre[arg.section] # {}
    /\ DOMAIN m_data[arg.section] = (DOMAIN pre[arg.section]) \cup {arg.key}
    /\ m_data[arg.section][arg.key] = arg.value.str

(***************************************************************************)
(* C17.  The format write gives its output.                                *)
(***************************************************************************)
\* a comes before b in the lexicographic order of strings
RECURSIVE LexLess(_, _)
LexLess(a, b) ==
    IF b = EmptyStr THEN FALSE
    ELSE IF a = EmptyStr THEN TRUE
    ELSE IF Head(a) = Head(b) THEN LexLess(Tail(a), Tail(b))
    ELSE Ord(Head(a)) < Ord(Head(b))

\* the strings of a set, each once, in lexicographic order
Sorted(S) ==
    CHOOSE seq \in [1..Cardinality(S) -> S] :
        \A i, j \in 1..Cardinality(S) : i < j => LexLess(seq[i], seq[j])

\* the strings of a sequence one after another
RECURSIVE Concat(_)
Concat(seq) == IF seq = <<>> THEN EmptyStr ELSE Head(seq) \o Concat(Tail(seq))

\* the text of a section: "[name]", a line "key = value" for each key in
\* order, and a blank line
SectionText(m, s) ==
    LET keys == Sorted(DOMAIN m[s])
    IN  <<"[">> \o s \o <<"]", LF>>
        \o Concat([i \in 1..Len(keys) |->
                        keys[i] \o <<SP, "=", SP>> \o m[s][keys[i]] \o <<LF>>])
        \o <<LF>>

\* the text of a mapping: the texts of its sections in order
Rendered(m) ==
    LET sections == Sorted(DOMAIN m)
    IN  Concat([i \in 1..Len(sections) |-> SectionText(m, sections[i])])

\* C17: write gives the sections in lexicographic order of name, and for
\* each the line "[name]", one line "key = value" for each key in
\* lexicographic order of key, and then exactly one blank line, after the
\* last section too; an empty store gives an empty output, and the store is
\* as it was before the writing.
C17_SerializerFormat ==
    op = "operator<<" /\ ostream.room = -1 =>
        /\ ostream.buf = Rendered(pre)
        /\ pre = EmptyMap => ostream.buf = EmptyStr
        /\ ~ostream.failbit
        /\ m_data = pre

\* two sections, one of them named by the empty string, were written, the
\* empty name first
C17_Witness ==
    /\ op = "operator<<"
    /\ DOMAIN pre = { EmptyStr, <<"a">> }
    /\ \A s \in DOMAIN pre : DOMAIN pre[s] # {}
    /\ SubSeq(ostream.buf, 1, 3) = <<"[", "]", LF>>
    /\ ostream.buf[Len(ostream.buf)] = LF
    /\ ostream.buf[Len(ostream.buf) - 1] = LF

(***************************************************************************)
(* C18.  A section without keys, and the listings.                         *)
(***************************************************************************)
\* the number of places of the sequence that hold x
Occurrences(x, seq) == Cardinality({ i \in 1..Len(seq) : seq[i] = x })

\* C18: after set_section(E) on a store without E, get_sections holds E
\* exactly once and get_keys(E) is empty; get_sections returns every
\* section name that exists once, in sorted order, and nothing else; and
\* get_keys of an absent section returns an empty sequence.
C18_SectionWithoutKeys ==
    /\ op = "set_section" /\ arg.section \notin DOMAIN pre =>
            /\ Occurrences(arg.section, get_sections_(m_data)) = 1
            /\ get_keys_(m_data, arg.section) = <<>>
    /\ op = "get_sections" =>
            /\ \A s \in DOMAIN m_data : Occurrences(s, ret.list) = 1
            /\ \A i \in 1..Len(ret.list) : ret.list[i] \in DOMAIN m_data
            /\ \A i, j \in 1..Len(ret.list) :
                    i < j => LexLess(ret.list[i], ret.list[j])
    /\ op = "get_keys" /\ arg.section \notin DOMAIN m_data => ret.list = <<>>

\* get_sections listed two sections in order, the second without keys
C18_Witness ==
    /\ op = "get_sections"
    /\ ret.list = << <<"a">>, <<"b">> >>
    /\ DOMAIN m_data[<<"b">>] = {}
    /\ DOMAIN m_data[<<"a">>] # {}

(***************************************************************************)
(* C19.  The path write_file() writes back to.                             *)
(***************************************************************************)
\* this step is a write_file() that wrote the mapping to the file at
\* file_path, or found that the file does not open, and left every other
\* file alone
WritesBackTo(file_path) ==
    IF CanWrite(files, file_path)
    THEN /\ ret'.has
         /\ files' = [files EXCEPT ![file_path] =
                            [exists |-> TRUE, text |-> Rendered(m_data)]]
    ELSE /\ ret'.err = "errno"
         /\ files' = files

\* this step is a write_file() that failed with the error of its own and
\* wrote nothing
NoPathKnown == ret'.err = "operation_not_permitted" /\ files' = files

\* C19 as stated: write_file() writes to the path the store was last
\* loaded from or last saved to, by from_file, load_file or
\* write_file(path), and fails with the "no path known" error, writing
\* nothing, exactly when no such path has ever been set.
C19_WriteBackLoadedOrSaved ==
    [][ op' = "write_file()" =>
            IF path_known = EmptyStr THEN NoPathKnown
            ELSE WritesBackTo(path_known) ]_vars

\* C19: write_file() writes to the path given to the latest from_file that
\* gave a manager or load_file, whether or not that load_file succeeded,
\* and fails with the "no path known" error, writing nothing, exactly when
\* there is no such path: none was given yet, the path given was empty, or
\* load_stream came after it.  write_file(path) leaves the path that
\* write_file() writes to as it was.
C19_WriteBackLoaded ==
    [][ op' = "write_file()" =>
            IF path_loaded = EmptyStr THEN NoPathKnown
            ELSE WritesBackTo(path_loaded) ]_vars

\* write_file() made the file of the path that load_file had been given and
\* had not found, with a key set since, after a write_file(path) elsewhere
C19_Witness ==
    /\ op = "write_file()"
    /\ ret.has
    /\ path_loaded = <<"q">>
    /\ path_known = <<"p">>
    /\ files[<<"q">>] = [exists |-> TRUE, text |-> Rendered(m_data)]
    /\ m_data # EmptyMap

(***************************************************************************)
(* C20.  The end of the stream and an I/O error.                           *)
(***************************************************************************)
\* the calls that return what parse returns
ParseResultOps == {"from_stream", "load_stream", "add_from_stream"}

\* C20: parse returns success when the input ends by the plain end of the
\* stream, an empty stream included, and returns the I/O error when a read
\* failed for another reason and left the stream bad, whatever lines were
\* read before that.
C20_EndOfStreamOrError ==
    op \in ParseResultOps =>
        /\ ret.has <=> ~istream.badbit
        /\ ~istream.badbit => istream.eofbit /\ ret.err = "none"
        /\ istream.badbit => ret.err = "EIO"
        /\ istream.buf = EmptyStr /\ ~istream.badbit => ret.has

\* a read failed after a line had been read and stored, and the call
\* returned the I/O error
C20_Witness ==
    /\ op = "add_from_stream"
    /\ istream.badbit
    /\ ~istream.eofbit
    /\ ~ret.has
    /\ ret.err = "EIO"
    /\ istream.pos > 0
    /\ m_data # pre

(***************************************************************************)
(* C21: the stream operators report failure through the stream.            *)
(***************************************************************************)
\* the text did not fit the device operator<< wrote to: the device took
\* Len(buf) characters and has room for ostream.room more
WriteFailed ==
    ostream.room # -1 /\ Len(Rendered(pre)) > Len(ostream.buf) + ostream.room

\* C21: when parse reports an error (the input stream went bad), operator>>
\* leaves the input stream's fail flag set, and when write reports an error
\* (the device did not take the whole text), operator<< leaves the output
\* stream's fail flag set; neither operator gives an error value back.
C21_StreamOperatorsSetFailFlag ==
    /\ op = "operator>>" /\ istream.badbit => istream.failbit /\ ret = NoRet
    /\ op = "operator<<" /\ WriteFailed => ostream.failbit /\ ret = NoRet

\* operator>> met a device error within the second line, after the first
\* line had changed the store
C21_Witness ==
    /\ op = "operator>>"
    /\ istream.badbit /\ istream.failbit
    /\ istream.pos > 1 /\ istream.buf[istream.pos] # LF
    /\ m_data # pre

\* operator<< met a device that refused the last character only
C21_WriteRefused ==
    op = "operator<<" /\ WriteFailed /\ Len(ostream.buf) = 15

(***************************************************************************)
(* C22: copies of an ini_manager share one mapping.                        *)
(***************************************************************************)
\* both ini_manager objects are there, one copied from the other, and neither
\* has been given a fresh mapping by load_stream or load_file since
CopiedAndKept ==
    /\ managers["A"].m_data # null
    /\ managers["B"].m_data # null
    /\ since_copy = {}

\* the section_accessor was formed by h[section]
FormedBy(h) == accessor.m_data = managers[h].m_data

\* C22: after one ini_manager is copied from the other, every change made
\* through either of them by set_value, set_section, remove_value,
\* remove_section, an indexed write or a merging load (add_from_stream,
\* add_from_file) is seen through the other at once: both report the same
\* mapping, the one the call made.
C22_AliasedMutations ==
    CopiedAndKept =>
        /\ View("A") = View("B")
        /\ self \in Handles => View("A") = m_data /\ View("B") = m_data
        /\ self = "accessor" /\ (FormedBy("A") \/ FormedBy("B")) =>
                View("A") = m_data /\ View("B") = m_data

\* a set_value made through the copy is read through the original
C22_Witness ==
    /\ CopiedAndKept
    /\ op = "set_value" /\ self = "B"
    /\ Lookup(View("A"), arg.section, arg.key).has

\* an indexed write made through an accessor of the original is read through the copy
C22_IndexedWriteSeen ==
    /\ CopiedAndKept
    /\ op = "section_accessor::operator[] =" /\ FormedBy("A")
    /\ Lookup(View("B"), arg.section, arg.key).has

(***************************************************************************)
(* C23: a pair line is split at its first '='.                             *)
(***************************************************************************)
\* the lines the call read, and the last of them
LinesRead == SplitLines(istream.buf)
LastLine == LinesRead[Len(LinesRead)]

\* the place of the first '=' of a line
FirstEquals(line) ==
    CHOOSE i \in 1..Len(line) : line[i] = "=" /\ \A j \in 1..(i - 1) : line[j] # "="

\* a line that is no comment and no header and holds a '='
IsPairLine(line) ==
    LET l == Stripped(line)
    IN  /\ Contains(l, "=")
        /\ l[1] \notin {";", "#"}
        /\ ~(l[1] = "[" /\ l[Len(l)] = "]")

\* what is written before and after the first '=' of a line
KeyText(line) == Stripped(SubSeq(line, 1, FirstEquals(line) - 1))
ValueText(line) == Stripped(SubSeq(line, FirstEquals(line) + 1, Len(line)))

\* the text between the brackets of a header line
HeaderBody(line) == LET l == Stripped(line) IN Stripped(SubSeq(l, 2, Len(l) - 1))

\* the header lines among the lines before the last
HeadersBeforeLast == { i \in 1..(Len(LinesRead) - 1) : IsHeaderLine(LinesRead[i]) }

\* the section the last line is read under: the body of the latest header
SectionOfLastLine ==
    HeaderBody(LinesRead[CHOOSE i \in HeadersBeforeLast : \A j \in HeadersBeforeLast : j <= i])

\* the last line the call read is a pair with a key, under a header
LastLineIsPair ==
    /\ ReadToEnd
    /\ LinesRead # <<>>
    /\ IsPairLine(LastLine)
    /\ KeyText(LastLine) # EmptyStr
    /\ HeadersBeforeLast # {}

\* C23: a key-value line is split at its first '=' only: the key is the
\* trimmed text before it, the value the trimmed text after it with every
\* further '=' it holds, and a line with nothing after the '=' stores the
\* empty string.
C23_SplitAtFirstEquals ==
    LastLineIsPair =>
        Lookup(m_data, SectionOfLastLine, KeyText(LastLine))
            = [has |-> TRUE, str |-> ValueText(LastLine)]

\* a line with a second '=' gave a value that holds it
C23_Witness ==
    /\ LastLineIsPair
    /\ LastLine = <<"k", SP, "=", SP, "v", "=", "w", SP>>
    /\ Lookup(m_data, <<"a">>, <<"k">>) = [has |-> TRUE, str |-> <<"v", "=", "w">>]

\* a line with nothing after its '=' replaced a value by the empty string
C23_EmptyValueStored ==
    /\ LastLineIsPair
    /\ op = "add_from_stream"
    /\ LastLine = <<"k", "=">>
    /\ Lookup(pre, <<"a">>, <<"k">>) = [has |-> TRUE, str |-> <<"o">>]
    /\ Lookup(m_data, <<"a">>, <<"k">>) = [has |-> TRUE, str |-> EmptyStr]

(***************************************************************************)
(* C24: which lines are headers, and the section a header names.           *)
(***************************************************************************)
\* the mapping as the lines before the last left it
BeforeLastLine == Parsed(Base, Unlines(SubSeq(LinesRead, 1, Len(LinesRead) - 1)))

\* m with the section there, empty when it was absent
WithSection(m, name) ==
    [s \in (DOMAIN m) \cup {name} |-> IF s \in DOMAIN m THEN m[s] ELSE EmptyMap]

\* m with the value under the key of the section, all else as it was
WithPair(m, name, key, value) ==
    [s \in (DOMAIN m) \cup {name} |->
        [k \in (DOMAIN Entries(m, s)) \cup (IF s = name THEN {key} ELSE {}) |->
            IF s = name /\ k = key THEN value ELSE m[s][k]]]

\* a line that begins with '[' and does not end with ']'
IsOpenBracketLine(line) ==
    LET l == Stripped(line) IN l # EmptyStr /\ l[1] = "[" /\ l[Len(l)] # "]"

\* C24: a trimmed line that starts with '[' and ends with ']' is a section
\* header whatever it holds between them, '=' and brackets too: the section
\* named by the trimmed text between the outer brackets (the empty name for
\* "[]" and for a body of whitespace) is created if absent and otherwise left
\* as it was, and a pair on the next line is recorded under that name.  A
\* line that starts with '[' and does not end with ']' is a pair line when
\* it holds a '=' and changes nothing when it does not.
C24_HeaderRecognition ==
    ReadToEnd /\ LinesRead # <<>> =>
        /\ IsHeaderLine(LastLine) =>
                m_data = WithSection(BeforeLastLine, HeaderBody(LastLine))
        /\ LastLineIsPair /\ IsHeaderLine(LinesRead[Len(LinesRead) - 1]) =>
                m_data = WithPair(BeforeLastLine,
                                  HeaderBody(LinesRead[Len(LinesRead) - 1]),
                                  KeyText(LastLine), ValueText(LastLine))
        /\ IsOpenBracketLine(LastLine) =>
                m_data = IF LastLineIsPair
                         THEN WithPair(BeforeLastLine, SectionOfLastLine,
                                       KeyText(LastLine), ValueText(LastLine))
                         ELSE BeforeLastLine

\* a header holding a '=' named a section and the pair after it went there
C24_Witness ==
    /\ op = "from_stream"
    /\ ReadToEnd
    /\ LinesRead = << <<"[", "a", "=", "b", "]">>, <<"k", "=", "v">> >>
    /\ m_data = (<<"a", "=", "b">> :> (<<"k">> :> <<"v">>))

\* a header with a body of whitespace named the empty section, and one with
\* inner brackets the name with the inner brackets
C24_EmptyAndBracketNames ==
    /\ ReadToEnd
    /\ LinesRead = << <<"[", SP, "]">>, <<"[", "[", "a", "]", "]">> >>
    /\ DOMAIN m_data = DOMAIN Base \cup { EmptyStr, <<"[", "a", "]">> }

\* a line beginning with '[' and not ending with ']' was read as a pair
C24_OpenBracketPair ==
    /\ op = "from_stream"
    /\ ReadToEnd
    /\ LinesRead = << <<"[", "a", "]">>, <<"[", "b", "=", "v">> >>
    /\ m_data = (<<"a">> :> (<<"[", "b">> :> <<"v">>))

(***************************************************************************)
(* C25: a load that fails is not rolled back.                              *)
(***************************************************************************)
\* the first line of a text, as a text: the one line a parse has processed
\* when its second read meets a device error
FirstLineOf(text) ==
    IF SplitLines(text) = <<>> THEN EmptyStr ELSE Unlines(<<Head(SplitLines(text))>>)

\* C25: when a device error ends a parse, what the lines read before it
\* changed stays in the store: a merging call leaves the mapping that was
\* there with those lines laid over it, and load_stream and load_file, which
\* drop the mapping that was there before they read, leave what those lines
\* alone give; nothing is put back.  A load_file whose file does not open
\* leaves the store empty.
C25_NoRollback ==
    /\ op \in MergeOps /\ istream.badbit =>
            m_data = Parsed(pre, FirstLineOf(istream.buf))
    /\ op = "load_stream" /\ istream.badbit =>
            ret.err = "EIO" /\ m_data = Parsed(EmptyMap, FirstLineOf(istream.buf))
    /\ op = "load_file" /\ ret.err = "EIO" =>
            m_data = Parsed(EmptyMap, FirstLineOf(files[arg.file_path].text))
    /\ op = "load_file" /\ ret.err = "errno" => m_data = EmptyMap

\* load_stream met a device error after the header of a section the store
\* held with a key: the section is left empty and the other section is gone
C25_Witness ==
    /\ op = "load_stream"
    /\ istream.badbit
    /\ ret.err = "EIO"
    /\ DOMAIN pre = { <<"a">>, <<"b">> }
    /\ pre[<<"a">>] # EmptyMap
    /\ m_data = (<<"a">> :> EmptyMap)

\* load_file of a file that does not open emptied a store that held entries
C25_UnopenedFileEmpties ==
    /\ op = "load_file"
    /\ ret.err = "errno"
    /\ pre # EmptyMap
    /\ m_data = EmptyMap

\* add_from_stream met a device error after a pair that changed a value
C25_PartialMerge ==
    /\ op = "add_from_stream"
    /\ istream.badbit
    /\ ret.err = "EIO"
    /\ m_data # pre

(***************************************************************************)
(* C26: load_stream and load_file give the ini_manager a mapping of its own.*)
(***************************************************************************)
ReplaceLoads == {"load_stream", "load_file"}

\* the calls on an ini_manager that change its mapping where it is
InPlaceOps ==
    {"set_value", "set_section", "remove_value", "remove_section",
     "add_from_stream", "add_from_file"}

\* the other ini_manager
Other(h) == IF h = "A" THEN "B" ELSE "A"

\* the mapping the section_accessor reads and writes
AccessorView == heap[accessor.m_data]

\* *m_data of the ini_manager h when the call has been made
ViewAfter(h) == heap'[managers'[h].m_data]

\* the call being made is a load_stream or load_file: the other ini_manager
\* reports what it reported before, the accessor formed earlier reads what it
\* read before, and neither shares the mapping the call has made
LoadDetaches ==
    op' \in ReplaceLoads =>
        /\ managers[Other(self')].m_data # null =>
                /\ ViewAfter(Other(self')) = View(Other(self'))
                /\ managers'[Other(self')].m_data # managers'[self'].m_data
        /\ accessor.m_data # null =>
                /\ AccessorView' = AccessorView
                /\ accessor' = accessor
                /\ accessor'.m_data # managers'[self'].m_data

\* the call being made changes the mapping of an ini_manager that has been
\* loaded, or whose copy has been loaded, since the copy was made: the other
\* one reports what it reported before
DetachedStayApart ==
    /\ managers["A"].m_data # null
    /\ managers["B"].m_data # null
    /\ since_copy # {}
    /\ op' \in InPlaceOps
    => ViewAfter(Other(self')) = View(Other(self'))

\* C26: load_stream or load_file through one ini_manager gives it a fresh
\* mapping: a copy made earlier and a section accessor obtained before the
\* load keep the old mapping, the copy reports after the load what it
\* reported before, and from then on a change made through one of the two is
\* not seen through the other.
C26_ReplaceLoadDetaches == [][LoadDetaches /\ DetachedStayApart]_vars

\* A was loaded from a stream after B was copied from it and an accessor was
\* formed: B and the accessor still hold the key A no longer has
C26_Witness ==
    /\ op = "load_stream" /\ self = "A"
    /\ since_copy = {"load_stream"}
    /\ managers["B"].m_data # null
    /\ accessor.m_data = managers["B"].m_data
    /\ Lookup(View("B"), <<"a">>, <<"k">>).has
    /\ ~Lookup(View("A"), <<"a">>, <<"k">>).has

\* after the load a set_value through B left A as it was
C26_ApartAfterLoad ==
    /\ op = "set_value" /\ self = "B"
    /\ since_copy = {"load_stream"}
    /\ Lookup(View("B"), <<"a">>, <<"k">>).has
    /\ View("A") = (<<"a">> :> EmptyMap)

(***************************************************************************)
(* C27: reading through the mutable index creates the section and the key. *)
(***************************************************************************)
\* the value under the key of the section, the empty string when there is none
ValueOrEmpty(m, section, key) ==
    IF section \in DOMAIN m /\ key \in DOMAIN m[section] THEN m[section][key]
    ELSE EmptyStr

\* the call being made reads store[section][key] through the accessor: the
\* section and the key are there afterwards, with the value they had or the
\* empty string, and that value is what the read gives
ReadCreates ==
    op' = "section_accessor::operator[]" =>
        /\ AccessorView' =
                WithPair(AccessorView, accessor.m_section_name, arg'.key,
                         ValueOrEmpty(AccessorView, accessor.m_section_name, arg'.key))
        /\ ret'.has
        /\ ret'.str = ValueOrEmpty(AccessorView, accessor.m_section_name, arg'.key)

\* the call being made forms store[section]: every ini_manager reports the
\* mapping it reported before, and a section that was absent still is
FormingCreatesNothing ==
    op' = "operator[]" =>
        /\ \A h \in Handles : managers[h].m_data # null => ViewAfter(h) = View(h)
        /\ accessor'.m_section_name = arg'.section
        /\ accessor'.m_data = managers[self'].m_data
        /\ arg'.section \notin DOMAIN View(self') =>
                arg'.section \notin DOMAIN ViewAfter(self')

\* C27: evaluating store[section][key] on a store that is not const, without
\* assigning to it, creates the section and the key with an empty string
\* value when they are absent, also when the section had been removed;
\* forming store[section] alone creates nothing.
C27_MutableReadCreates == [][ReadCreates /\ FormingCreatesNothing]_vars

\* a read through the accessor made a section with one key of empty value,
\* in the mapping A reports
C27_Witness ==
    /\ op = "section_accessor::operator[]"
    /\ arg.section = <<"a">> /\ arg.key = <<"k">>
    /\ ret.has /\ ret.str = EmptyStr
    /\ accessor.m_data = managers["A"].m_data
    /\ View("A") = (<<"a">> :> (<<"k">> :> EmptyStr))

\* an accessor was formed for a section that is absent, and it still is
C27_FormedOnly ==
    /\ op = "operator[]"
    /\ arg.section = <<"a">>
    /\ View(self) = EmptyMap

(***************************************************************************)
(* C28: round trip of a store that was made by parsing.                    *)
(***************************************************************************)
\* C28: a store made by from_stream from any text, written with operator<<
\* and read back with from_stream from the text written, gives the same
\* mapping: the same sections, those without keys too, the same keys and
\* the same values.
C28_ParsedRoundTrip ==
    [][op = "operator<<" /\ op' = "from_stream" =>
            /\ istream'.buf = Rendered(m_data)
            /\ ret'.has
            /\ m_data' = m_data]_vars

\* a store with a section named with a '=', a value holding a '=' and the
\* empty section without keys was written and read back
C28_Witness ==
    /\ op = "from_stream"
    /\ pre = m_data
    /\ istream.buf = Rendered(pre)
    /\ m_data = (<<"a", "=", "b">> :> (<<"k">> :> <<"v", "=", "w">>))
                    @@ (EmptyStr :> EmptyMap)

(***************************************************************************)
(* C29: load_stream forgets the path; the merging loads and                *)
(* write_file(path) keep it.                                               *)
(***************************************************************************)
\* the calls that leave the path write_file() writes to as it was
PathKeepingOps == {"add_from_file", "add_from_stream", "write_file"}

\* C29: a write_file() that comes right after load_stream fails with the
\* "no path known" error and writes nothing, also when from_file or
\* load_file had given the store a path before; add_from_file,
\* add_from_stream and write_file(path) leave the path the store remembers
\* as it was.
C29_LoadStreamForgetsPath ==
    [][ /\ op = "load_stream" /\ op' = "write_file()" => NoPathKnown
        /\ op' \in PathKeepingOps => m_file_path' = m_file_path
        /\ op \in PathKeepingOps /\ op' = "write_file()" =>
                IF path_loaded = EmptyStr THEN NoPathKnown
                ELSE WritesBackTo(path_loaded) ]_vars

\* write_file() failed for want of a path on a store that load_file had
\* loaded from a file and load_stream had loaded since
C29_Witness ==
    /\ op = "write_file()"
    /\ ret.err = "operation_not_permitted"
    /\ path_known = <<"p">>
    /\ path_loaded = EmptyStr
    /\ DOMAIN m_data = { <<"b">> }

\* write_file() wrote to the path of load_file after an add_from_stream
C29_PathKept ==
    /\ op = "write_file()"
    /\ ret.has
    /\ path_loaded = <<"q">>
    /\ DOMAIN m_data = { <<"b">> }
    /\ files[<<"q">>] = [exists |-> TRUE, text |-> Rendered(m_data)]

(***************************************************************************)
(* C30: the fail flag of a stream that was read to its end.                *)
(***************************************************************************)
\* C30: whenever a parse reads its stream to the end, the stream is left
\* with its fail flag set together with its end-of-stream flag, although
\* parse returned success and every line was processed, a last line without
\* a newline too: the mapping is the one the text gives with every line
\* ended by a newline.  Only a stream left bad makes parse report an error.
C30_FailFlagAtEnd ==
    op \in ParseOps =>
        /\ ~istream.badbit =>
                /\ istream.eofbit /\ istream.failbit
                /\ istream.pos = Len(istream.buf)
                /\ op \in ParseResultOps => ret.has
                /\ op # "from_stream" =>
                        m_data = Parsed(Base, Unlines(SplitLines(istream.buf)))
        /\ op \in ParseResultOps => (ret.has <=> ~istream.badbit)

\* operator>> read a text whose last line has no newline: the pair of that
\* line is stored and the stream has its fail flag set
C30_Witness ==
    /\ op = "operator>>"
    /\ istream.buf = <<"[", "a", "]", LF, "k", "=", "v">>
    /\ istream.eofbit /\ istream.failbit /\ ~istream.badbit
    /\ pre = EmptyMap
    /\ m_data = (<<"a">> :> (<<"k">> :> <<"v">>))

====
